---- MODULE Spec2Model ----
(***************************************************************************)
(* Calico engine: the game state machine (source/game_mode.py,             *)
(* source/simulation_mode.py), the tile economy (tile_bag.py, market.py,   *)
(* player.py) and the board geometry (hex_grid.py).                        *)
(*                                                                         *)
(* Python objects that can be aliased (lists, dicts) live in `heap`; a     *)
(* game object is a record of references and scalars in `games`.           *)
(***************************************************************************)
EXTENDS Integers, Sequences, FiniteSets, TLC

VARIABLES games, heap, ret

vars == <<games, heap, ret>>

(***************************************************************************)
(* Bounds of the model (inputs are drawn from sets these definitions size) *)
(***************************************************************************)
\* board configurations handed to the constructor leave 1..MaxEmpty empty cells
MaxEmpty == 3
\* number of (shuffle, cat set-up, goal offer) outcomes of the constructor's random draws
NumSetups == 1
\* callers try the first MaxGoalInputs of the 24 goal selections
MaxGoalInputs == 1
\* game objects alive at once in the copy specification (the game and its copies)
MaxGames == 3
MaxBagTiles == 6
\* the iteration budgets of a search: max_iterations ranges over 0..MaxIterations
MaxIterations == 4
\* the most actions applied to a game before an agent is asked about it
MaxAdvance == 3
\* the number of cells of the region tiles are set on when groups are scored
RegionSize == 7
\* tiles of another pattern set beside a scored line
MaxOther == 1
\* the number of cells tiles are set on before a board is scored twice
ScoreCells == 5
\* the number of turns of a playout in which the last empty cell is played as well as the
\* first
MaxVaried == 1

(***************************************************************************)
(* tile.py                                                                 *)
(***************************************************************************)
NumColors == 6
NumPatterns == 6
CopiesPerCombination == 3

\* Python's None, among tiles
None == 0

\* a Tile is the value (color, pattern); coded (color-1)*6 + pattern, 1..36
Tile(color, pattern) == (color - 1) * NumPatterns + pattern
Color(tile) == ((tile - 1) \div NumPatterns) + 1
Pattern(tile) == ((tile - 1) % NumPatterns) + 1

\* Optional[...] fields of an Action: <<>> is None, <<v>> is the value v
Nothing == <<>>
Some(v) == <<v>>

(***************************************************************************)
(* small helpers on sequences                                              *)
(***************************************************************************)
Front(s) == SubSeq(s, 1, Len(s) - 1)
Last(s) == s[Len(s)]
\* list.pop(i), list index 0-based
PopAt(s, i) == SubSeq(s, 1, i) \o SubSeq(s, i + 2, Len(s))
Range(s) == {s[i] : i \in DOMAIN s}
Abs(x) == IF x < 0 THEN -x ELSE x

RECURSIVE SumSeq(_)
SumSeq(s) == IF s = <<>> THEN 0 ELSE s[1] + SumSeq(Tail(s))

(***************************************************************************)
(* hex_grid.py: positions, neighbour cache                                 *)
(***************************************************************************)
_HEX_DIRECTIONS ==
    << <<1, -1, 0>>, <<1, 0, -1>>, <<0, 1, -1>>,
       <<-1, 1, 0>>, <<-1, 0, 1>>, <<0, -1, 1>> >>

extra_coordinates ==
    << <<-1, 4>>, <<-2, 4>>, <<-3, 4>>,
       <<4, -1>>, <<4, -2>>,
       <<-4, 3>>, <<-4, 2>>, <<-4, 1>>,
       <<2, -4>>, <<1, -4>> >>

\* add_hex: the key (q, r, -q-r)
add_hex(qr) == <<qr[1], qr[2], -qr[1] - qr[2]>>

\* initialize_grid: keys in insertion order (q outer, r inner, then the extras)
initialize_grid ==
    LET cand == [k \in 1..49 |-> add_hex(<<((k - 1) \div 7) - 3, ((k - 1) % 7) - 3>>)]
        InHex(p) == Abs(p[3]) <= 3
    IN  SelectSeq(cand, InHex) \o [i \in 1..Len(extra_coordinates) |-> add_hex(extra_coordinates[i])]

\* board_configurations.GOAL_POSITIONS
GOAL_POSITIONS == << <<-2, 1, 1>>, <<1, -1, 0>>, <<0, 1, -1>> >>

\* a rebuild of the cache that starts from an empty cache: the positions deleted from the
\* grid lose their entries
_build_neighbor_cache_cleared(cache, keys) ==
    LET nb(pos) ==
            LET cand == [d \in 1..6 |-> <<pos[1] + _HEX_DIRECTIONS[d][1],
                                          pos[2] + _HEX_DIRECTIONS[d][2],
                                          pos[3] + _HEX_DIRECTIONS[d][3]>>]
                InGrid(p) == p \in Range(keys)
            IN  SelectSeq(cand, InGrid)
    IN  [pos \in Range(keys) |-> nb(pos)]

\* a rebuild of the cache that still counts the positions deleted from the grid as neighbours
_build_neighbor_cache_stale_keys(cache, keys) ==
    LET nb(pos) ==
            LET cand == [d \in 1..6 |-> <<pos[1] + _HEX_DIRECTIONS[d][1],
                                          pos[2] + _HEX_DIRECTIONS[d][2],
                                          pos[3] + _HEX_DIRECTIONS[d][3]>>]
                InGrid(p) == p \in Range(keys) \cup DOMAIN cache
            IN  SelectSeq(cand, InGrid)
    IN  [pos \in (DOMAIN cache) \cup Range(keys) |->
            IF pos \in Range(keys) THEN nb(pos) ELSE cache[pos]]

\* _build_neighbor_cache over the keys `keys`: entries of other positions are kept
_build_neighbor_cache(cache, keys) ==
    LET nb(pos) ==
            LET cand == [d \in 1..6 |-> <<pos[1] + _HEX_DIRECTIONS[d][1],
                                          pos[2] + _HEX_DIRECTIONS[d][2],
                                          pos[3] + _HEX_DIRECTIONS[d][3]>>]
                InGrid(p) == p \in Range(keys)
            IN  SelectSeq(cand, InGrid)
    IN  [pos \in (DOMAIN cache) \cup Range(keys) |->
            IF pos \in Range(keys) THEN nb(pos) ELSE cache[pos]]

\* set_goal_positions: the keys left after the goal positions are deleted
set_goal_positions(keys, positions) ==
    LET Playable(p) == p \notin Range(positions)
    IN  SelectSeq(keys, Playable)

\* the dict keys of every game grid, in iteration order (HexGrid() then set_goal_positions)
GridKeys == set_goal_positions(initialize_grid, GOAL_POSITIONS)

\* the neighbour cache every grid of a game shares: built by HexGrid(), rebuilt by set_goal_positions
NeighborCache ==
    LET empty == [p \in {} |-> <<>>]
        cache == _build_neighbor_cache(_build_neighbor_cache(empty, initialize_grid), GridKeys)
    IN  cache @@ empty

get_neighbors(pos) == IF pos \in DOMAIN NeighborCache THEN NeighborCache[pos] ELSE <<>>

is_valid_position(grid, pos) ==
    /\ pos \in DOMAIN grid
    /\ \A i \in 1..3 : -4 <= pos[i] /\ pos[i] <= 4

\* set_tile on a valid position (callers check validity first)
set_tile(grid, pos, tile) == [grid EXCEPT ![pos] = tile]

get_empty_positions(grid) ==
    LET Empty(p) == grid[p] = None
    IN  SelectSeq(GridKeys, Empty)

is_position_empty(grid, pos) ==
    IF ~is_valid_position(grid, pos) THEN FALSE ELSE grid[pos] = None

(***************************************************************************)
(* board_configurations.py                                                 *)
(***************************************************************************)
\* BOARD_1 (Teal Board): (position, Color value, Pattern value)
BOARD_1 ==
    << << <<-1, 4, -3>>, 4, 2>>, << <<0, 3, -3>>, 6, 6>>, << <<1, 2, -3>>, 1, 4>>,
       << <<2, 1, -3>>, 5, 5>>, << <<3, 0, -3>>, 4, 3>>, << <<4, -1, -3>>, 3, 2>>,
       << <<4, -2, -2>>, 2, 1>>, << <<3, -2, -1>>, 5, 6>>, << <<3, -3, 0>>, 4, 4>>,
       << <<2, -3, 1>>, 3, 5>>, << <<2, -4, 2>>, 2, 3>>,
       << <<1, -4, 3>>, 6, 2>>, << <<0, -3, 3>>, 1, 1>>, << <<-1, -2, 3>>, 3, 6>>,
       << <<-2, -1, 3>>, 2, 4>>, << <<-3, 0, 3>>, 1, 3>>, << <<-4, 1, 3>>, 6, 5>>,
       << <<-4, 2, 2>>, 4, 1>>, << <<-4, 3, 1>>, 5, 2>>, << <<-3, 3, 0>>, 6, 4>>,
       << <<-3, 4, -1>>, 2, 5>>, << <<-2, 4, -2>>, 3, 4>> >>

\* initialize_from_config: set_tile(q, r, s, Tile(color, pattern)) for every entry
RECURSIVE initialize_from_config(_, _)
initialize_from_config(grid, config) ==
    IF config = <<>> THEN grid
    ELSE initialize_from_config(
            set_tile(grid, config[1][1], Tile(config[1][2], config[1][3])),
            Tail(config))

(***************************************************************************)
(* The state the operations work on: S = [games, heap].                    *)
(*   S.heap  : sequence of Python list/dict values, a reference is an index *)
(*   S.games : sequence of game objects (SimulationMode instances)          *)
(* A game object holds                                                      *)
(*   tile_bag     ref of TileBag.tiles                                      *)
(*   tiles        ref of player.tiles (the hand)                            *)
(*   grid         ref of player.grid.grid (dict position -> Tile or None)   *)
(*   market       ref of market.tiles, NoRef while market is None           *)
(*   market_bag   ref of market.tile_bag's tiles, NoRef while market is None*)
(*   goals        ref of the goals list                                     *)
(*   _action_history  ref of the action history list                        *)
(*   turn_number, turn_phase, _tiles_initialized, goal_options, cats        *)
(***************************************************************************)
NoRef == 0

GOAL_SELECTION == "GOAL_SELECTION"
PLACE_TILE == "PLACE_TILE"
CHOOSE_MARKET == "CHOOSE_MARKET"
GAME_OVER == "GAME_OVER"
TurnPhase == {GOAL_SELECTION, PLACE_TILE, CHOOSE_MARKET, GAME_OVER}

Deref(S, ref) == S.heap[ref]
Store(S, ref, val) == [S EXCEPT !.heap[ref] = val]
\* a new list/dict object: its reference is Len(S.heap) + 1
Alloc(S, val) == [S EXCEPT !.heap = Append(S.heap, val)]
NewRef(S) == Len(S.heap) + 1
SetField(S, g, field, val) == [S EXCEPT !.games[g][field] = val]

(***************************************************************************)
(* tile_bag.py                                                             *)
(***************************************************************************)
\* mutant: the bag is filled with 2 tiles of each combination
fill_bag_two_of_each ==
    [i \in 1..(NumColors * NumPatterns * 2) |->
        Tile(((i - 1) \div (NumPatterns * 2)) + 1, (((i - 1) \div 2) % NumPatterns) + 1)]

\* fill_bag: colour-major, pattern, 3 of each combination
fill_bag ==
    [i \in 1..(NumColors * NumPatterns * CopiesPerCombination) |->
        Tile(((i - 1) \div (NumPatterns * CopiesPerCombination)) + 1,
             (((i - 1) \div CopiesPerCombination) % NumPatterns) + 1)]

\* random.shuffle(tiles): the k-th of a family of permutations of the list
\* (a stride coprime to the length, then a rotation by k)
Stride(n) == IF n % 7 # 0 THEN 7 ELSE IF n % 5 # 0 THEN 5 ELSE 11
shuffle(tiles, k) ==
    LET n == Len(tiles)
    IN  [i \in 1..n |-> tiles[(((i - 1) * Stride(n) + k) % n) + 1]]

\* mutant: the shuffle loses the last tile of the bag
shuffle_remaining_one_lost(tiles, k) == Front(shuffle(tiles, k))

\* shuffle_remaining: the same in-place random.shuffle
shuffle_remaining(tiles, k) == shuffle(tiles, k)

\* draw_tile on the bag object bagref: [tile, S]
draw_tile(S, bagref) ==
    LET bag == Deref(S, bagref)
    IN  IF bag # <<>>
        THEN [tile |-> bag[Len(bag)], S |-> Store(S, bagref, Front(bag))]
        ELSE [tile |-> None, S |-> S]

tiles_remaining(S, bagref) == Len(Deref(S, bagref))

(***************************************************************************)
(* market.py (a Market is its tiles list mref and its bag bagref)           *)
(***************************************************************************)
RECURSIVE refill(_, _, _)
refill(S, mref, bagref) ==
    IF Len(Deref(S, mref)) < 3 /\ tiles_remaining(S, bagref) > 0
    THEN LET d == draw_tile(S, bagref)
         IN  refill(Store(d.S, mref, Append(Deref(d.S, mref), d.tile)), mref, bagref)
    ELSE S

\* mutant: no lower bound on the index, a negative one counts from the end as list.pop does
choose_tile_no_lower_bound(S, mref, index) ==
    LET tiles == Deref(S, mref)
    IN  IF index < Len(tiles) /\ -index <= Len(tiles) /\ tiles # <<>>
        THEN [tile |-> tiles[(index % Len(tiles)) + 1],
              S |-> Store(S, mref, PopAt(tiles, index % Len(tiles)))]
        ELSE [tile |-> None, S |-> S]

\* choose_tile(index): [tile, S]
choose_tile(S, mref, index) ==
    LET tiles == Deref(S, mref)
    IN  IF 0 <= index /\ index < Len(tiles)
        THEN [tile |-> tiles[index + 1], S |-> Store(S, mref, PopAt(tiles, index))]
        ELSE [tile |-> None, S |-> S]

(***************************************************************************)
(* player.py                                                               *)
(***************************************************************************)
add_tile(S, g, tile) ==
    Store(S, S.games[g].tiles, Append(Deref(S, S.games[g].tiles), tile))

\* place_tile(q, r, s, tile_index): [ok, S]
place_tile(S, g, pos, tile_index) ==
    LET hand == Deref(S, S.games[g].tiles)
        grid == Deref(S, S.games[g].grid)
    IN  IF ~(0 <= tile_index /\ tile_index < Len(hand))
        THEN [ok |-> FALSE, S |-> S]
        ELSE IF ~is_position_empty(grid, pos)
        THEN [ok |-> FALSE, S |-> S]
        ELSE LET S1 == Store(S, S.games[g].tiles, PopAt(hand, tile_index))
             IN  [ok |-> TRUE,
                  S |-> Store(S1, S.games[g].grid, set_tile(grid, pos, hand[tile_index + 1]))]

(***************************************************************************)
(* game_state.py: Action                                                   *)
(***************************************************************************)
Action(action_type, position, hand_index, market_index, selected_goal_indices) ==
    [action_type |-> action_type, position |-> position, hand_index |-> hand_index,
     market_index |-> market_index, selected_goal_indices |-> selected_goal_indices]

is_final_turn_action(action) ==
    action.action_type = "place_and_choose" /\ action.market_index = Nothing

(***************************************************************************)
(* goal.py: the goal classes, and the two factories game_mode.py imports    *)
(***************************************************************************)
\* ALL_GOAL_CLASSES, by index: names and (single condition, both conditions) points
ALL_GOAL_CLASSES == <<"AAA-BBB", "AA-BB-CC", "All Unique", "AAAA-BB", "AA-BB-C-D", "AAA-BB-C">>

\* create_goal_options: 4 distinct goal classes; the k-th outcome of the random sample
create_goal_options(k) == [i \in 1..4 |-> ((i * 5 + k) % 6) + 1]

\* create_goals_from_selection: goal i is an instance of goal_options[selected[i]] at positions[i]
create_goals_from_selection(goal_options, selected, positions) ==
    [i \in 1..Len(selected) |->
        [kind |-> goal_options[selected[i] + 1], position |-> positions[i]]]

(***************************************************************************)
(* cat.py: initialize_game_cats                                            *)
(***************************************************************************)
Cat(name, point_value, patterns) ==
    [name |-> name, point_value |-> point_value, patterns |-> patterns]

\* one cat from each bucket, pattern pairs dealt from the shuffled pattern list;
\* the k-th outcome of the random choices
initialize_game_cats(k) ==
    LET all_patterns == shuffle([i \in 1..NumPatterns |-> i], k)
        bucket2 == IF k % 2 = 0 THEN Cat("Rumi", 5, SubSeq(all_patterns, 3, 4))
                   ELSE Cat("Tecolote", 7, SubSeq(all_patterns, 3, 4))
    IN  << Cat("Millie", 3, SubSeq(all_patterns, 1, 2)),
           bucket2,
           Cat("Leo", 11, SubSeq(all_patterns, 5, 6)) >>

(***************************************************************************)
(* game_mode.py / simulation_mode.py: construction                         *)
(***************************************************************************)
\* SimulationMode(board_config): the state holding the one new game.
\* k selects the outcome of the constructor's random draws.
NewGame(board_config, k) ==
    LET grid0 == [p \in Range(initialize_grid) |-> None]
        grid1 == initialize_from_config(grid0, board_config)
        grid == [p \in Range(GridKeys) |-> grid1[p]]
    IN  [heap |-> << shuffle(fill_bag, k),  \* 1: tile_bag.tiles
                     <<>>,                  \* 2: player.tiles
                     grid,                  \* 3: player.grid.grid
                     <<>>,                  \* 4: goals
                     <<>> >>,               \* 5: _action_history
         games |-> << [tile_bag |-> 1, tiles |-> 2, grid |-> 3,
                       market |-> NoRef, market_bag |-> NoRef,
                       goals |-> 4, _action_history |-> 5,
                       turn_number |-> 0, turn_phase |-> GOAL_SELECTION,
                       _tiles_initialized |-> FALSE,
                       goal_options |-> create_goal_options(k),
                       cats |-> initialize_game_cats(k)] >>]

(***************************************************************************)
(* game_mode.py: state queries                                             *)
(***************************************************************************)
Hand(S, g) == Deref(S, S.games[g].tiles)
Grid(S, g) == Deref(S, S.games[g].grid)
Bag(S, g) == Deref(S, S.games[g].tile_bag)
\* market.tiles, or [] while market is None (as get_game_state reports it)
MarketTiles(S, g) == IF S.games[g].market = NoRef THEN <<>> ELSE Deref(S, S.games[g].market)
Goals(S, g) == Deref(S, S.games[g].goals)
History(S, g) == Deref(S, S.games[g]._action_history)

\* mutant: the game is declared over while one cell is still empty
is_game_over_one_left(S, g) == Len(get_empty_positions(Grid(S, g))) <= 1

is_game_over(S, g) == Len(get_empty_positions(Grid(S, g))) = 0

\* itertools.permutations(range(4), 3), in its lexicographic order
_enumerate_goal_selection_actions ==
    LET cand == [k \in 1..64 |-> <<(k - 1) \div 16, ((k - 1) \div 4) % 4, (k - 1) % 4>>]
        Distinct(t) == t[1] # t[2] /\ t[1] # t[3] /\ t[2] # t[3]
        perms == SelectSeq(cand, Distinct)
    IN  [i \in 1..Len(perms) |-> Action("select_goals", Nothing, Nothing, Nothing, perms[i])]

\* mutant: in PLACE_TILE every cell of the board is offered, filled or not
get_legal_actions_all_cells(S, g) ==
    LET phase == S.games[g].turn_phase
        nh == Len(Hand(S, g))
        nm == Len(MarketTiles(S, g))
    IN  IF phase = GOAL_SELECTION THEN _enumerate_goal_selection_actions
        ELSE IF phase = PLACE_TILE
        THEN [k \in 1..(Len(GridKeys) * nh) |->
                Action("place_tile", GridKeys[((k - 1) \div nh) + 1],
                       Some((k - 1) % nh), Nothing, Nothing)]
        ELSE IF phase = CHOOSE_MARKET
        THEN [k \in 1..nm |-> Action("choose_market", Nothing, Nothing, Some(k - 1), Nothing)]
        ELSE <<>>

get_legal_actions(S, g) ==
    LET phase == S.games[g].turn_phase
        empty_positions == get_empty_positions(Grid(S, g))
        nh == Len(Hand(S, g))
        nm == Len(MarketTiles(S, g))
    IN  IF phase = GOAL_SELECTION THEN _enumerate_goal_selection_actions
        ELSE IF phase = PLACE_TILE
        THEN [k \in 1..(Len(empty_positions) * nh) |->
                Action("place_tile", empty_positions[((k - 1) \div nh) + 1],
                       Some((k - 1) % nh), Nothing, Nothing)]
        ELSE IF phase = CHOOSE_MARKET
        THEN [k \in 1..nm |-> Action("choose_market", Nothing, Nothing, Some(k - 1), Nothing)]
        ELSE <<>>

\* mutant: the final turn is not told apart, every action carries a market index
get_combined_legal_actions_no_final(S, g) ==
    LET empty_positions == get_empty_positions(Grid(S, g))
        nh == Len(Hand(S, g))
        nm == Len(MarketTiles(S, g))
    IN  IF S.games[g].turn_phase # PLACE_TILE THEN <<>>
        ELSE [k \in 1..(Len(empty_positions) * nh * nm) |->
                Action("place_and_choose", empty_positions[((k - 1) \div (nh * nm)) + 1],
                       Some(((k - 1) \div nm) % nh), Some((k - 1) % nm), Nothing)]

get_combined_legal_actions(S, g) ==
    LET empty_positions == get_empty_positions(Grid(S, g))
        nh == Len(Hand(S, g))
        nm == Len(MarketTiles(S, g))
        is_final_turn == Len(empty_positions) = 1
    IN  IF S.games[g].turn_phase # PLACE_TILE THEN <<>>
        ELSE IF is_final_turn
        THEN [k \in 1..(Len(empty_positions) * nh) |->
                Action("place_and_choose", empty_positions[((k - 1) \div nh) + 1],
                       Some((k - 1) % nh), Nothing, Nothing)]
        ELSE [k \in 1..(Len(empty_positions) * nh * nm) |->
                Action("place_and_choose", empty_positions[((k - 1) \div (nh * nm)) + 1],
                       Some(((k - 1) \div nm) % nh), Some((k - 1) % nm), Nothing)]

(***************************************************************************)
(* hex_grid.py: the pre-computed lines                                     *)
(***************************************************************************)
_LINE_DIRECTIONS == << <<1, 0, -1>>, <<1, -1, 0>>, <<0, -1, 1>> >>

\* _build_all_grid_positions: all positions of the board, goal positions included, in the
\* order the set is iterated (taken to be the order of insertion)
_ALL_POSITIONS == initialize_grid

\* _enumerate_lines(positions, length): start outer, direction inner
_enumerate_lines(positions, length) ==
    LET line(start, d) ==
            [i \in 1..length |-> <<start[1] + d[1] * (i - 1),
                                   start[2] + d[2] * (i - 1),
                                   start[3] + d[3] * (i - 1)>>]
        cand == [k \in 1..(Len(positions) * 3) |->
                    line(positions[((k - 1) \div 3) + 1], _LINE_DIRECTIONS[((k - 1) % 3) + 1])]
        Valid(l) == \A i \in 1..length : l[i] \in Range(positions)
    IN  SelectSeq(cand, Valid)

ALL_3_LINES == _enumerate_lines(_ALL_POSITIONS, 3)
ALL_4_LINES == _enumerate_lines(_ALL_POSITIONS, 4)
ALL_5_LINES == _enumerate_lines(_ALL_POSITIONS, 5)

(***************************************************************************)
(* cat.py, button.py: groups of tiles.  grid is the dict position -> tile.  *)
(***************************************************************************)
\* grid.grid.get(pos)
grid_get(grid, pos) == IF pos \in DOMAIN grid THEN grid[pos] ELSE None

\* tile.pattern or tile.color
TileAttr(tile, attr) == IF attr = "pattern" THEN Pattern(tile) ELSE Color(tile)

\* `not tile or tile.<attr> != value` is false
TileMatches(grid, pos, attr, value) ==
    grid_get(grid, pos) # None /\ TileAttr(grid_get(grid, pos), attr) = value

\* an adjacency test that finds no group adjacent to a used tile
_is_adjacent_to_used_never(positions, used_tiles) == FALSE

\* Cat._is_adjacent_to_used and button._is_adjacent_to_used
_is_adjacent_to_used(positions, used_tiles) ==
    \E pos \in positions : Range(get_neighbors(pos)) \cap used_tiles # {}

\* _is_connected_cluster: every position has another one among its neighbours
_is_connected_cluster(positions) ==
    \A i \in DOMAIN positions :
        \E j \in DOMAIN positions : i # j /\ positions[j] \in Range(get_neighbors(positions[i]))

\* _dfs_cluster: the clusters of 3 it appends to results, in order; current is the path
RECURSIVE _dfs_cluster(_, _, _, _, _, _)
RECURSIVE DfsNeighbors(_, _, _, _, _, _, _)
_dfs_cluster(grid, pos, attr, value, used_tiles, current) ==
    IF pos \in used_tiles \/ pos \in Range(current) \/ pos \notin DOMAIN grid THEN <<>>
    ELSE IF ~TileMatches(grid, pos, attr, value) THEN <<>>
    ELSE LET path == Append(current, pos)
         IN  IF Len(path) = 3
             THEN IF _is_connected_cluster(path) THEN <<Range(path)>> ELSE <<>>
             ELSE DfsNeighbors(grid, get_neighbors(pos), 1, attr, value, used_tiles, path)

\* `for neighbor in grid.get_neighbors(*pos)` of _dfs_cluster, from the i-th neighbour on
DfsNeighbors(grid, neighbors, i, attr, value, used_tiles, current) ==
    IF i > Len(neighbors) THEN <<>>
    ELSE _dfs_cluster(grid, neighbors[i], attr, value, used_tiles, current)
         \o DfsNeighbors(grid, neighbors, i + 1, attr, value, used_tiles, current)

_find_clusters_from(grid, start, attr, value, used_tiles) ==
    _dfs_cluster(grid, start, attr, value, used_tiles, <<>>)

\* the positions of grid.all_positions the scan does not skip for their tile: those holding
\* a tile of the colour or pattern looked for
MatchingPositions(grid, attr, value) ==
    LET Matches(pos) == TileMatches(grid, pos, attr, value)
    IN  SelectSeq(GridKeys, Matches)

\* CatMillie._find_pattern_groups and button.find_color_groups, from the i-th of these
\* positions on: [groups, used_tiles]
RECURSIVE ClusterScan(_, _, _, _, _, _, _)
ClusterScan(grid, positions, attr, value, i, used_tiles, groups) ==
    IF i > Len(positions) THEN [groups |-> groups, used_tiles |-> used_tiles]
    ELSE LET pos == positions[i]
         IN  IF pos \in used_tiles
             THEN ClusterScan(grid, positions, attr, value, i + 1, used_tiles, groups)
             ELSE LET found_groups == _find_clusters_from(grid, pos, attr, value, used_tiles)
                      free == {k \in DOMAIN found_groups :
                                  ~_is_adjacent_to_used(found_groups[k], used_tiles)}
                  IN  IF free = {}
                      THEN ClusterScan(grid, positions, attr, value, i + 1, used_tiles, groups)
                      ELSE LET group == found_groups[CHOOSE k \in free : \A m \in free : k <= m]
                           IN  ClusterScan(grid, positions, attr, value, i + 1,
                                           used_tiles \cup group, Append(groups, group))

_find_pattern_groups(grid, pattern, used_tiles) ==
    ClusterScan(grid, MatchingPositions(grid, "pattern", pattern), "pattern", pattern,
                1, used_tiles, <<>>).groups

find_color_groups(grid, color, used_tiles) ==
    ClusterScan(grid, MatchingPositions(grid, "color", color), "color", color,
                1, used_tiles, <<>>).groups

\* the lines the loop of a line cat does not skip for their tiles: those holding the
\* pattern on every position
MatchingLines(grid, lines, pattern) ==
    LET Matches(line) == \A j \in DOMAIN line : TileMatches(grid, line[j], "pattern", pattern)
    IN  SelectSeq(lines, Matches)

\* the `for line in ALL_n_LINES` loop of the line cats, from the i-th of these lines on
RECURSIVE LineScan(_, _, _, _, _, _)
LineScan(grid, lines, pattern, i, all_used, valid_groups) ==
    IF i > Len(lines) THEN [valid_groups |-> valid_groups, all_used |-> all_used]
    ELSE LET line == lines[i]
             valid == \A j \in DOMAIN line : line[j] \notin all_used
         IN  IF valid /\ ~_is_adjacent_to_used(Range(line), all_used)
             THEN LineScan(grid, lines, pattern, i + 1,
                           all_used \cup Range(line), Append(valid_groups, Range(line)))
             ELSE LineScan(grid, lines, pattern, i + 1, all_used, valid_groups)

\* a line search that credits every line holding a pattern, whatever tiles are used
LineCat_find_all_groups_every_line(grid, lines, patterns, used_tiles) ==
    [i \in 1..Len(MatchingLines(grid, lines, patterns[1])) |->
        Range(MatchingLines(grid, lines, patterns[1])[i])]
    \o [i \in 1..Len(MatchingLines(grid, lines, patterns[2])) |->
        Range(MatchingLines(grid, lines, patterns[2])[i])]

\* CatLeo / CatRumi / CatTecolote .find_all_groups over their lines
LineCat_find_all_groups(grid, lines, patterns, used_tiles) ==
    LET first == LineScan(grid, MatchingLines(grid, lines, patterns[1]), patterns[1], 1,
                          used_tiles, <<>>)
    IN  LineScan(grid, MatchingLines(grid, lines, patterns[2]), patterns[2], 1,
                 first.all_used, first.valid_groups).valid_groups

\* CatMillie.find_all_groups
CatMillie_find_all_groups(grid, patterns, used_tiles) ==
    LET first == _find_pattern_groups(grid, patterns[1], used_tiles)
        all_used == used_tiles \cup UNION Range(first)
    IN  first \o _find_pattern_groups(grid, patterns[2], all_used)

find_all_groups(cat, grid, used_tiles) ==
    IF cat.name = "Millie" THEN CatMillie_find_all_groups(grid, cat.patterns, used_tiles)
    ELSE IF cat.name = "Leo" THEN LineCat_find_all_groups(grid, ALL_5_LINES, cat.patterns, used_tiles)
    ELSE IF cat.name = "Rumi" THEN LineCat_find_all_groups(grid, ALL_3_LINES, cat.patterns, used_tiles)
    ELSE LineCat_find_all_groups(grid, ALL_4_LINES, cat.patterns, used_tiles)

\* Cat.score(grid)
Cat_score(cat, grid) == Len(find_all_groups(cat, grid, {})) * cat.point_value

\* a find_all_groups that claims tiles in the set it is given, without the copy
find_all_groups_used_tiles_shared(cat, grid, used_tiles) ==
    used_tiles \cup UNION Range(find_all_groups(cat, grid, used_tiles))

\* the set passed to find_all_groups as used_tiles, after the call: the groups are claimed
\* in all_used = used_tiles.copy(), the set passed is left as it was
find_all_groups_used_tiles(cat, grid, used_tiles) == used_tiles

\* Cat.score_with_usage(grid, used_tiles): (score, new_used), new_used a set of its own
score_with_usage(cat, grid, used_tiles) ==
    LET groups == find_all_groups(cat, grid, used_tiles)
    IN  [score |-> Len(groups) * cat.point_value,
         new_used |-> used_tiles \cup UNION Range(groups)]

(***************************************************************************)
(* button.py                                                               *)
(***************************************************************************)
BUTTON_POINTS == 3
RAINBOW_BUTTON_POINTS == 5

\* count_buttons_by_color: Color -> number of buttons
count_buttons_by_color(grid) ==
    [color \in 1..NumColors |-> Len(find_color_groups(grid, color, {}))]

score_buttons(grid) ==
    LET button_counts == count_buttons_by_color(grid)
        total_buttons == SumSeq(button_counts)
        has_rainbow == \A color \in DOMAIN button_counts : button_counts[color] >= 1
    IN  total_buttons * BUTTON_POINTS + (IF has_rainbow THEN RAINBOW_BUTTON_POINTS ELSE 0)

get_button_details(grid) ==
    LET button_counts == count_buttons_by_color(grid)
        total_buttons == SumSeq(button_counts)
        has_rainbow == \A color \in DOMAIN button_counts : button_counts[color] >= 1
    IN  [buttons_by_color |-> button_counts,
         total_buttons |-> total_buttons,
         button_score |-> total_buttons * BUTTON_POINTS,
         has_rainbow |-> has_rainbow,
         rainbow_score |-> IF has_rainbow THEN RAINBOW_BUTTON_POINTS ELSE 0,
         total_score |-> total_buttons * BUTTON_POINTS
                         + (IF has_rainbow THEN RAINBOW_BUTTON_POINTS ELSE 0)]

(***************************************************************************)
(* goal.py: scoring                                                        *)
(***************************************************************************)
\* GoalTile.get_neighbor_tiles: the tiles on the goal's neighbour positions
get_neighbor_tiles(goal, grid) ==
    LET neighbors == get_neighbors(goal.position)
        Filled(pos) == grid_get(grid, pos) # None
        filled == SelectSeq(neighbors, Filled)
    IN  [i \in DOMAIN filled |-> grid_get(grid, filled[i])]

\* sorted(Counter(values).values(), reverse=True), as the bag of the counts
CountValues(values) ==
    LET kinds == Range(values)
        count(v) == Cardinality({i \in DOMAIN values : values[i] = v})
    IN  [n \in {count(v) : v \in kinds} |-> Cardinality({v \in kinds : count(v) = n})]

\* the count signature a goal class asks of the colours and of the patterns
GoalSignature(kind) ==
    IF kind = "AAA-BBB" THEN (3 :> 2)
    ELSE IF kind = "AA-BB-CC" THEN (2 :> 3)
    ELSE IF kind = "All Unique" THEN (1 :> 6)
    ELSE IF kind = "AAAA-BB" THEN (4 :> 1) @@ (2 :> 1)
    ELSE IF kind = "AA-BB-C-D" THEN (2 :> 2) @@ (1 :> 2)
    ELSE (3 :> 1) @@ (2 :> 1) @@ (1 :> 1)

\* points for one condition and for both
GoalPoints(kind) ==
    IF kind = "AAA-BBB" THEN <<8, 13>>
    ELSE IF kind = "AA-BB-CC" THEN <<7, 11>>
    ELSE IF kind = "All Unique" THEN <<10, 15>>
    ELSE IF kind = "AAAA-BB" THEN <<7, 14>>
    ELSE IF kind = "AA-BB-C-D" THEN <<5, 7>>
    ELSE <<7, 11>>

\* a goal score that adds the value of one condition for each condition met
Goal_score_added(goal, grid) ==
    LET tiles == get_neighbor_tiles(goal, grid)
        name == ALL_GOAL_CLASSES[goal.kind]
        value(values) == IF CountValues(values) = GoalSignature(name) THEN GoalPoints(name)[1] ELSE 0
    IN  IF Len(tiles) # 6 THEN 0
        ELSE value([i \in DOMAIN tiles |-> Color(tiles[i])])
             + value([i \in DOMAIN tiles |-> Pattern(tiles[i])])

\* <Goal>.score(grid)
Goal_score(goal, grid) ==
    LET tiles == get_neighbor_tiles(goal, grid)
        name == ALL_GOAL_CLASSES[goal.kind]
    IN  IF Len(tiles) # 6 THEN 0
        ELSE LET color_met ==
                     CountValues([i \in DOMAIN tiles |-> Color(tiles[i])]) = GoalSignature(name)
                 pattern_met ==
                     CountValues([i \in DOMAIN tiles |-> Pattern(tiles[i])]) = GoalSignature(name)
             IN  IF color_met /\ pattern_met THEN GoalPoints(name)[2]
                 ELSE IF color_met \/ pattern_met THEN GoalPoints(name)[1]
                 ELSE 0

(***************************************************************************)
(* game_mode.py: scores                                                    *)
(***************************************************************************)
get_final_score(S, g) ==
    SumSeq([i \in DOMAIN S.games[g].cats |-> Cat_score(S.games[g].cats[i], Grid(S, g))])
    + SumSeq([i \in DOMAIN Goals(S, g) |-> Goal_score(Goals(S, g)[i], Grid(S, g))])
    + score_buttons(Grid(S, g))

\* a dict comprehension {key(x): value(x) for x in items}: a later item replaces an
\* earlier one with the same key
DictOf(keys, values) ==
    [k \in Range(keys) |->
        values[CHOOSE i \in DOMAIN keys : keys[i] = k /\ \A j \in DOMAIN keys : keys[j] = k => j <= i]]

\* sum(d.values())
RECURSIVE SumOver(_, _)
SumOver(d, ks) ==
    IF ks = {} THEN 0
    ELSE LET k == CHOOSE x \in ks : TRUE IN d[k] + SumOver(d, ks \ {k})
SumValues(d) == SumOver(d, DOMAIN d)

\* {cat.name: cat.score(grid) for cat in self.cats}
get_cat_scores(S, g) ==
    DictOf([i \in DOMAIN S.games[g].cats |-> S.games[g].cats[i].name],
           [i \in DOMAIN S.games[g].cats |-> Cat_score(S.games[g].cats[i], Grid(S, g))])

\* {goal.name: goal.score(grid) for goal in self.goals}
get_goal_scores(S, g) ==
    DictOf([i \in DOMAIN Goals(S, g) |-> ALL_GOAL_CLASSES[Goals(S, g)[i].kind]],
           [i \in DOMAIN Goals(S, g) |-> Goal_score(Goals(S, g)[i], Grid(S, g))])

get_button_scores(S, g) == get_button_details(Grid(S, g))

(***************************************************************************)
(* game_mode.py: actions.  Every _do_* yields the set of its possible      *)
(* outcomes [ok, S, rand]: ok is the value returned, S the state left       *)
(* behind, rand the values random.randint returned on the way.              *)
(***************************************************************************)
\* random.randint(lo, hi): any integer of lo..hi
randint(lo, hi) == lo..hi

Outcome(ok, S, rand) == [ok |-> ok, S |-> S, rand |-> rand]

\* mutant: the initial hand is dealt one tile
_initialize_tiles_one_tile(S, g) ==
    IF S.games[g]._tiles_initialized THEN S
    ELSE LET d1 == draw_tile(S, S.games[g].tile_bag)
             S2 == SetField(Alloc(d1.S, <<d1.tile>>), g, "tiles", NewRef(d1.S))
             S3 == SetField(SetField(Alloc(S2, <<>>), g, "market", NewRef(S2)),
                            g, "market_bag", S.games[g].tile_bag)
             S4 == refill(S3, S3.games[g].market, S3.games[g].market_bag)
         IN  SetField(S4, g, "_tiles_initialized", TRUE)

_initialize_tiles(S, g) ==
    IF S.games[g]._tiles_initialized THEN S
    ELSE LET d1 == draw_tile(S, S.games[g].tile_bag)
             d2 == draw_tile(d1.S, S.games[g].tile_bag)
             \* self.player.tiles = [..]: a new list
             S2 == SetField(Alloc(d2.S, <<d1.tile, d2.tile>>), g, "tiles", NewRef(d2.S))
             \* Market(self.tile_bag): a new tiles list, bound to the game's bag
             S3 == SetField(SetField(Alloc(S2, <<>>), g, "market", NewRef(S2)),
                            g, "market_bag", S.games[g].tile_bag)
             S4 == refill(S3, S3.games[g].market, S3.games[g].market_bag)
         IN  SetField(S4, g, "_tiles_initialized", TRUE)

\* mutant: the phase is not checked
_do_select_goals_any_phase(S, g, action) ==
    LET new_goals == create_goals_from_selection(
                         S.games[g].goal_options, action.selected_goal_indices, GOAL_POSITIONS)
        S1 == SetField(Alloc(S, new_goals), g, "goals", NewRef(S))
        S2 == _initialize_tiles(S1, g)
    IN  {Outcome(TRUE, SetField(S2, g, "turn_phase", PLACE_TILE), <<>>)}

_do_select_goals(S, g, action) ==
    IF S.games[g].turn_phase # GOAL_SELECTION THEN {Outcome(FALSE, S, <<>>)}
    ELSE LET new_goals == create_goals_from_selection(
                              S.games[g].goal_options, action.selected_goal_indices, GOAL_POSITIONS)
             S1 == SetField(Alloc(S, new_goals), g, "goals", NewRef(S))
             S2 == _initialize_tiles(S1, g)
         IN  {Outcome(TRUE, SetField(S2, g, "turn_phase", PLACE_TILE), <<>>)}

\* mutant: a placement that fills the board leaves the game waiting for a market choice
_do_place_tile_no_final(S, g, position, hand_index) ==
    IF S.games[g].turn_phase # PLACE_TILE THEN {Outcome(FALSE, S, <<>>)}
    ELSE LET p == place_tile(S, g, position, hand_index)
         IN  IF p.ok
             THEN {Outcome(TRUE, SetField(p.S, g, "turn_phase", CHOOSE_MARKET), <<>>)}
             ELSE {Outcome(FALSE, S, <<>>)}

_do_place_tile(S, g, position, hand_index) ==
    IF S.games[g].turn_phase # PLACE_TILE THEN {Outcome(FALSE, S, <<>>)}
    ELSE LET p == place_tile(S, g, position, hand_index)
         IN  IF p.ok
             THEN IF is_game_over(p.S, g)
                  THEN {Outcome(TRUE, SetField(p.S, g, "turn_phase", GAME_OVER), <<>>)}
                  ELSE {Outcome(TRUE, SetField(p.S, g, "turn_phase", CHOOSE_MARKET), <<>>)}
             ELSE {Outcome(FALSE, S, <<>>)}

\* the loop of _simulate_other_players with n simulated players to go: the [S, rand] it can
\* end with, rand being the discard indices drawn so far
RECURSIVE SimulateLoop(_, _, _, _)
SimulateLoop(S, g, n, rand) ==
    IF n = 0 THEN {[S |-> S, rand |-> rand]}
    ELSE LET mref == S.games[g].market
             tiles == Deref(S, mref)
         IN  IF Len(tiles) > 0
             THEN UNION { SimulateLoop(
                              refill(choose_tile(S, mref, discard_idx).S, mref, S.games[g].market_bag),
                              g, n - 1, Append(rand, discard_idx))
                          : discard_idx \in randint(0, Len(tiles) - 1) }
             ELSE SimulateLoop(S, g, n - 1, rand)

\* mutant: only two simulated players discard
_simulate_other_players_two(S, g) == SimulateLoop(S, g, 2, <<>>)

_simulate_other_players(S, g) == SimulateLoop(S, g, 3, <<>>)

_end_turn(S, g) ==
    IF is_game_over(S, g) THEN SetField(S, g, "turn_phase", GAME_OVER)
    ELSE SetField(SetField(S, g, "turn_number", S.games[g].turn_number + 1),
                  g, "turn_phase", PLACE_TILE)

\* mutant: after a separate market choice the simulated players do not discard
_do_choose_market_no_discards(S, g, market_index) ==
    IF S.games[g].turn_phase # CHOOSE_MARKET THEN {Outcome(FALSE, S, <<>>)}
    ELSE LET c == choose_tile(S, S.games[g].market, market_index)
         IN  IF c.tile # None
             THEN LET S1 == add_tile(c.S, g, c.tile)
                      S2 == refill(S1, S1.games[g].market, S1.games[g].market_bag)
                  IN  {Outcome(TRUE, _end_turn(S2, g), <<>>)}
             ELSE {Outcome(FALSE, S, <<>>)}

_do_choose_market(S, g, market_index) ==
    IF S.games[g].turn_phase # CHOOSE_MARKET THEN {Outcome(FALSE, S, <<>>)}
    ELSE LET c == choose_tile(S, S.games[g].market, market_index)
         IN  IF c.tile # None
             THEN LET S1 == add_tile(c.S, g, c.tile)
                      S2 == refill(S1, S1.games[g].market, S1.games[g].market_bag)
                  IN  {Outcome(TRUE, _end_turn(sim.S, g), sim.rand) :
                          sim \in _simulate_other_players(S2, g)}
             ELSE {Outcome(FALSE, S, <<>>)}

\* a combined action without the final-turn branch: the market step always runs
_do_place_and_choose_no_final(S, g, action) ==
    IF S.games[g].turn_phase # PLACE_TILE THEN {Outcome(FALSE, S, <<>>)}
    ELSE LET p == place_tile(S, g, action.position, action.hand_index[1])
         IN  IF ~p.ok THEN {Outcome(FALSE, S, <<>>)}
             ELSE LET after_market ==
                          IF action.market_index # Nothing
                          THEN LET c == choose_tile(p.S, p.S.games[g].market, action.market_index[1])
                               IN  IF c.tile # None
                                   THEN LET S1 == add_tile(c.S, g, c.tile)
                                            S2 == refill(S1, S1.games[g].market, S1.games[g].market_bag)
                                        IN  _simulate_other_players(S2, g)
                                   ELSE {[S |-> p.S, rand |-> <<>>]}
                          ELSE {[S |-> p.S, rand |-> <<>>]}
                  IN  {Outcome(TRUE, _end_turn(sim.S, g), sim.rand) : sim \in after_market}

_do_place_and_choose(S, g, action) ==
    IF S.games[g].turn_phase # PLACE_TILE THEN {Outcome(FALSE, S, <<>>)}
    ELSE LET p == place_tile(S, g, action.position, action.hand_index[1])
         IN  IF ~p.ok THEN {Outcome(FALSE, S, <<>>)}
             ELSE IF is_game_over(p.S, g)
             THEN {Outcome(TRUE, SetField(p.S, g, "turn_phase", GAME_OVER), <<>>)}
             ELSE LET after_market ==
                          IF action.market_index # Nothing
                          THEN LET c == choose_tile(p.S, p.S.games[g].market, action.market_index[1])
                               IN  IF c.tile # None
                                   THEN LET S1 == add_tile(c.S, g, c.tile)
                                            S2 == refill(S1, S1.games[g].market, S1.games[g].market_bag)
                                        IN  _simulate_other_players(S2, g)
                                   ELSE {[S |-> p.S, rand |-> <<>>]}
                          ELSE {[S |-> p.S, rand |-> <<>>]}
                  IN  {Outcome(TRUE, _end_turn(sim.S, g), sim.rand) : sim \in after_market}

\* GameMode.apply_action
GameMode_apply_action(S, g, action) ==
    IF action.action_type = "select_goals" THEN _do_select_goals(S, g, action)
    ELSE IF action.action_type = "place_tile"
    THEN _do_place_tile(S, g, action.position, action.hand_index[1])
    ELSE IF action.action_type = "choose_market"
    THEN _do_choose_market(S, g, action.market_index[1])
    ELSE IF action.action_type = "place_and_choose" THEN _do_place_and_choose(S, g, action)
    ELSE {Outcome(FALSE, S, <<>>)}

\* SimulationMode.apply_action: a successful action is appended to the history
apply_action(S, g, action) ==
    { IF out.ok
      THEN Outcome(TRUE,
                   Store(out.S, out.S.games[g]._action_history,
                         Append(Deref(out.S, out.S.games[g]._action_history), action)),
                   out.rand)
      ELSE out
      : out \in GameMode_apply_action(S, g, action) }

(***************************************************************************)
(* simulation_mode.py: copy                                                *)
(***************************************************************************)
\* copy(): the new game is appended to S.games; k selects the outcome of shuffle_remaining
\* a copy that shares the grid dict with its source
copy_shared_grid(S, g, k) ==
    LET src == S.games[g]
        \* copy.copy(self.tile_bag): a new TileBag with tiles.copy()
        bag_ref == NewRef(S)
        S1 == Alloc(S, Deref(S, src.tile_bag))
        \* the player's grid dict and hand list
        grid_ref == NewRef(S1)
        S2 == Alloc(S1, Deref(S1, src.grid))
        tiles_ref == NewRef(S2)
        S3 == IF src.turn_phase = GOAL_SELECTION
              THEN Alloc(S2, <<>>)
              ELSE Alloc(S2, Deref(S2, src.tiles))
        \* copy.copy(self.market), linked to the new bag
        market_ref == IF src.turn_phase = GOAL_SELECTION THEN NoRef ELSE NewRef(S3)
        S4 == IF src.turn_phase = GOAL_SELECTION THEN S3 ELSE Alloc(S3, Deref(S3, src.market))
        market_bag_ref == IF src.turn_phase = GOAL_SELECTION THEN NoRef ELSE bag_ref
        \* self._action_history.copy()
        history_ref == NewRef(S4)
        S5 == Alloc(S4, Deref(S4, src._action_history))
        new_game == [tile_bag |-> bag_ref, tiles |-> tiles_ref, grid |-> src.grid,
                     market |-> market_ref, market_bag |-> market_bag_ref,
                     goals |-> src.goals, _action_history |-> history_ref,
                     turn_number |-> src.turn_number, turn_phase |-> src.turn_phase,
                     _tiles_initialized |-> src._tiles_initialized,
                     goal_options |-> src.goal_options, cats |-> src.cats]
        S6 == [S5 EXCEPT !.games = Append(S5.games, new_game)]
    IN  Store(S6, bag_ref, shuffle_remaining(Deref(S6, bag_ref), k))

copy(S, g, k) ==
    LET src == S.games[g]
        \* copy.copy(self.tile_bag): a new TileBag with tiles.copy()
        bag_ref == NewRef(S)
        S1 == Alloc(S, Deref(S, src.tile_bag))
        \* the player's grid dict and hand list
        grid_ref == NewRef(S1)
        S2 == Alloc(S1, Deref(S1, src.grid))
        tiles_ref == NewRef(S2)
        S3 == IF src.turn_phase = GOAL_SELECTION
              THEN Alloc(S2, <<>>)
              ELSE Alloc(S2, Deref(S2, src.tiles))
        \* copy.copy(self.market), linked to the new bag
        market_ref == IF src.turn_phase = GOAL_SELECTION THEN NoRef ELSE NewRef(S3)
        S4 == IF src.turn_phase = GOAL_SELECTION THEN S3 ELSE Alloc(S3, Deref(S3, src.market))
        market_bag_ref == IF src.turn_phase = GOAL_SELECTION THEN NoRef ELSE bag_ref
        \* self._action_history.copy()
        history_ref == NewRef(S4)
        S5 == Alloc(S4, Deref(S4, src._action_history))
        new_game == [tile_bag |-> bag_ref, tiles |-> tiles_ref, grid |-> grid_ref,
                     market |-> market_ref, market_bag |-> market_bag_ref,
                     goals |-> src.goals, _action_history |-> history_ref,
                     turn_number |-> src.turn_number, turn_phase |-> src.turn_phase,
                     _tiles_initialized |-> src._tiles_initialized,
                     goal_options |-> src.goal_options, cats |-> src.cats]
        S6 == [S5 EXCEPT !.games = Append(S5.games, new_game)]
    IN  Store(S6, bag_ref, shuffle_remaining(Deref(S6, bag_ref), k))

(***************************************************************************)
(* simulation_mode.py: play_random_game;  mcts_agent.py: MCTSNode.expand   *)
(***************************************************************************)
\* the actions a search node or a random playout chooses from
\* (MCTSNode.__post_init__ and play_random_game, use_combined_actions = True)
untried_actions(S, g) ==
    IF is_game_over(S, g) THEN <<>>
    ELSE IF S.games[g].turn_phase = GOAL_SELECTION THEN get_legal_actions(S, g)
    ELSE get_combined_legal_actions(S, g)

\* MCTSNode.expand on the node whose state is game g: child_state = self.state.copy();
\* child_state.apply_action(action).  The child is the last game of the outcome.
expand(S, g, k, action) ==
    LET T == copy(S, g, k)
    IN  apply_action(T, Len(T.games), action)

(***************************************************************************)
(* Inputs                                                                  *)
(***************************************************************************)
\* the tile a test configuration puts on an inner cell
PrefillTile(pos) == Tile(((pos[1] + 2 * pos[2] + 18) % NumColors) + 1,
                         ((2 * pos[1] + pos[2] + 18) % NumPatterns) + 1)

\* BOARD_1 with all but the first e empty cells filled in: a board_config with e empty cells
TestBoard(e) ==
    LET rim == {BOARD_1[i][1] : i \in DOMAIN BOARD_1}
        Inner(p) == p \notin rim
        inner == SelectSeq(GridKeys, Inner)
    IN  BOARD_1 \o [i \in 1..(Len(inner) - e) |->
                       <<inner[i + e], Color(PrefillTile(inner[i + e])),
                         Pattern(PrefillTile(inner[i + e]))>>]

State == [games |-> games, heap |-> heap]

\* positions a caller passes: the first empty cell (a filled one when the board is full),
\* and three positions no tile can go to (a filled cell, a goal position, a position off
\* the board)
SomeEmpty(g) ==
    LET empty_positions == get_empty_positions(Grid(State, g))
    IN  IF Len(empty_positions) > 0 THEN empty_positions[1] ELSE GridKeys[2]
BadPositions == {GridKeys[1], GOAL_POSITIONS[1], <<5, -5, 0>>}

GoalInputs == {_enumerate_goal_selection_actions[i] : i \in 1..MaxGoalInputs}

PlaceTileInputs(g) ==
    {Action("place_tile", SomeEmpty(g), Some(h), Nothing, Nothing) : h \in -1..2}
    \cup {Action("place_tile", pos, Some(0), Nothing, Nothing) : pos \in BadPositions}

ChooseMarketInputs(g) ==
    {Action("choose_market", Nothing, Nothing, Some(m), Nothing) : m \in {-1, 2, 3}}

PlaceAndChooseInputs(g) ==
    {Action("place_and_choose", SomeEmpty(g), Some(0), m, Nothing) :
        m \in {Nothing, Some(1), Some(3)}}
    \cup {Action("place_and_choose", SomeEmpty(g), Some(h), Some(0), Nothing) : h \in {-1, 2}}
    \cup {Action("place_and_choose", pos, Some(0), Some(0), Nothing) : pos \in BadPositions}

\* every action a caller passes to game g
InputActions(g) ==
    GoalInputs \cup PlaceTileInputs(g) \cup ChooseMarketInputs(g) \cup PlaceAndChooseInputs(g)

\* the actions whose effect the properties examine in every state of game g: every goal
\* selection, and every placement / market choice / combined action over the last empty
\* cell, the unusable positions, hand indices -1..2 and market indices -1..3
ProbePositions(g) ==
    LET empty_positions == get_empty_positions(Grid(State, g))
    IN  {empty_positions[i] : i \in {Len(empty_positions)} \cap DOMAIN empty_positions}
        \cup BadPositions
ProbeActions(g) ==
    Range(_enumerate_goal_selection_actions)
    \cup {Action("place_tile", pos, Some(h), Nothing, Nothing) :
             pos \in ProbePositions(g), h \in -1..2}
    \cup {Action("choose_market", Nothing, Nothing, Some(m), Nothing) : m \in -1..3}
    \cup {Action("place_and_choose", pos, Some(h), m, Nothing) :
             pos \in ProbePositions(g), h \in -1..2,
             m \in {Nothing} \cup {Some(i) : i \in -1..3}}

(***************************************************************************)
(* Specification: one game driven through apply_action                     *)
(***************************************************************************)
Init ==
    \E e \in 1..MaxEmpty, k \in 0..(NumSetups - 1) :
        /\ games = NewGame(TestBoard(e), k).games
        /\ heap = NewGame(TestBoard(e), k).heap
        /\ ret = TRUE

\* the discards of the simulated players a run continues from: each discards the first
\* market tile (the properties examine every outcome of a call, whatever the discards)
ExploredDraws(rand) == \A i \in DOMAIN rand : rand[i] = 0

\* one call game.apply_action(action); ret is the value it returns
Call(g, action) ==
    \E out \in apply_action(State, g, action) :
        /\ ExploredDraws(out.rand)
        /\ games' = out.S.games
        /\ heap' = out.S.heap
        /\ ret' = out.ok

SelectGoals(g) == \E a \in GoalInputs : Call(g, a)

PlaceTile(g) == \E a \in PlaceTileInputs(g) : Call(g, a)

ChooseMarket(g) == \E a \in ChooseMarketInputs(g) : Call(g, a)

PlaceAndChoose(g) == \E a \in PlaceAndChooseInputs(g) : Call(g, a)

Next ==
    \/ SelectGoals(1)
    \/ PlaceTile(1)
    \/ ChooseMarket(1)
    \/ PlaceAndChoose(1)

Spec == Init /\ [][Next]_vars

(***************************************************************************)
(* Specification: a game, its copies, and the search made on the copies    *)
(***************************************************************************)
\* the choice a run continues from: the action expand() pops, the last of the untried ones
ExploredChoices(S, g) ==
    LET actions == untried_actions(S, g)
    IN  {actions[i] : i \in {Len(actions)} \cap DOMAIN actions}

\* the outcome of shuffle_remaining a run continues from
ExploredShuffles == {0}

\* new_game = games[g].copy(); k is the outcome of shuffle_remaining
Copy(g) ==
    /\ Len(games) < MaxGames
    /\ \E k \in ExploredShuffles :
          LET T == copy(State, g, k)
          IN  /\ games' = T.games
              /\ heap' = T.heap
    /\ UNCHANGED ret

\* one iteration of the loop of play_random_game on the newest game
PlayRandomStep(g) ==
    /\ g = Len(games)
    /\ ~is_game_over(State, g)
    /\ \E a \in ExploredChoices(State, g) : Call(g, a)

\* game.apply_action(game.get_legal_actions()[0]) on the game the copies were made of
ApplyFirstLegal ==
    /\ get_legal_actions(State, 1) # <<>>
    /\ Call(1, get_legal_actions(State, 1)[1])

\* node.expand() on the search node holding game g; the games from the second on are the
\* states of the search tree, the second being the root select_action makes
Expand(g) ==
    /\ g >= 2
    /\ Len(games) < MaxGames
    /\ \E k \in ExploredShuffles, a \in ExploredChoices(State, g) :
          \E out \in expand(State, g, k, a) :
              /\ ExploredDraws(out.rand)
              /\ games' = out.S.games
              /\ heap' = out.S.heap
              /\ ret' = out.ok

NextCopy ==
    \/ \E g \in DOMAIN games : Copy(g)
    \/ \E g \in DOMAIN games : PlayRandomStep(g)
    \/ ApplyFirstLegal
    \/ \E g \in DOMAIN games : Expand(g)

\* the copies are followed on the boards with the fewest empty cells, from one outcome of
\* the constructor's shuffle
InitCopy ==
    \E e \in 1..(MaxEmpty - 2), k \in ExploredShuffles :
        /\ games = NewGame(TestBoard(e), k).games
        /\ heap = NewGame(TestBoard(e), k).heap
        /\ ret = TRUE

SpecCopy == InitCopy /\ [][NextCopy]_vars

(***************************************************************************)
(* Specification: a game and one copy of it, the source's actions replayed *)
(* on the copy                                                             *)
(***************************************************************************)
\* the game played before the copy is made, and after it whenever the copy has caught up
PlaySource ==
    /\ Len(games) = 2 => Len(History(State, 2)) = Len(History(State, 1))
    /\ \E a \in ExploredChoices(State, 1) \cup
                {get_legal_actions(State, 1)[i] : i \in {1} \cap DOMAIN get_legal_actions(State, 1)} :
          Call(1, a)

\* game_copy = game.copy(), every outcome of shuffle_remaining
CopySource ==
    /\ Len(games) = 1
    /\ \E k \in 0..(NumSetups - 1) :
          LET T == copy(State, 1, k)
          IN  /\ games' = T.games
              /\ heap' = T.heap
    /\ UNCHANGED ret

\* the next action of the source's history applied to the copy
ReplayOnCopy ==
    /\ Len(games) = 2
    /\ Len(History(State, 2)) < Len(History(State, 1))
    /\ Call(2, History(State, 1)[Len(History(State, 2)) + 1])

NextTwin ==
    \/ PlaySource
    \/ CopySource
    \/ ReplayOnCopy

SpecTwin == Init /\ [][NextTwin]_vars

(***************************************************************************)
(* Specification: a Market on a bag with few tiles left (tests/            *)
(* test_edge_cases.py).  heap[1] is the tiles list of the bag, heap[2] the *)
(* tiles list of the market; ret is the last call and what it returned.    *)
(***************************************************************************)
BagRef == 1
MarketRef == 2

\* bag = TileBag(), drained to n tiles; market = Market(bag)
InitMarket ==
    \E n \in 0..MaxBagTiles, k \in 0..(NumSetups - 1) :
        LET tiles == shuffle(fill_bag, k)
            S0 == [games |-> <<>>, heap |-> <<SubSeq(tiles, 1, n), <<>>>>]
            S1 == refill(S0, MarketRef, BagRef)
        IN  /\ games = S1.games
            /\ heap = S1.heap
            /\ ret = [op |-> "Market", value |-> None]

\* bag.draw_tile()
DrawTile ==
    LET d == draw_tile(State, BagRef)
    IN  /\ heap' = d.S.heap
        /\ ret' = [op |-> "draw_tile", value |-> d.tile]
        /\ UNCHANGED games

\* market.refill()
Refill ==
    /\ heap' = refill(State, MarketRef, BagRef).heap
    /\ ret' = [op |-> "refill", value |-> None]
    /\ UNCHANGED games

\* market.choose_tile(index)
ChooseTile ==
    \E index \in -1..3 :
        LET c == choose_tile(State, MarketRef, index)
        IN  /\ heap' = c.S.heap
            /\ ret' = [op |-> "choose_tile", value |-> c.tile]
            /\ UNCHANGED games

NextMarket ==
    \/ DrawTile
    \/ Refill
    \/ ChooseTile

SpecMarket == InitMarket /\ [][NextMarket]_vars

(***************************************************************************)
(* mcts_agent.py: MCTSNode                                                 *)
(*                                                                         *)
(* The state of a node is a game of `games`; a tree is a sequence of node  *)
(* records, a node being referred to by its index (parent 0 is None).      *)
(* total_score is kept as the sequence of the scores added to it.          *)
(***************************************************************************)
\* the list a node, a rollout and the fallback of select_action take their actions from
phase_actions(S, g, use_combined_actions) ==
    IF S.games[g].turn_phase = GOAL_SELECTION THEN get_legal_actions(S, g)
    ELSE IF use_combined_actions THEN get_combined_legal_actions(S, g)
    ELSE get_legal_actions(S, g)

\* MCTSNode(state, parent, action, use_combined_actions) and __post_init__
MCTSNode(S, state, parent, action, use_combined_actions) ==
    [state |-> state, parent |-> parent, action |-> action, children |-> <<>>,
     visits |-> 0, total_score |-> <<>>,
     untried_actions |-> IF ~is_game_over(S, state)
                         THEN phase_actions(S, state, use_combined_actions)
                         ELSE <<>>,
     use_combined_actions |-> use_combined_actions]

is_fully_expanded(node) == Len(node.untried_actions) = 0

is_terminal(S, node) == is_game_over(S, node.state)

\* best_child: max(self.children, key=ucb1_score).  A child never visited scores inf, and
\* max returns the first of the maximal ones; among visited children the order of the UCB1
\* scores (real-valued: average score plus C * sqrt(ln(parent visits) / visits)) is not
\* computed, any of them may be the one returned.  The node is given with children.
best_child(nodes, n) ==
    LET children == nodes[n].children
        unvisited == {i \in DOMAIN children : nodes[children[i]].visits = 0}
    IN  IF unvisited # {}
        THEN {children[CHOOSE i \in unvisited : \A j \in unvisited : i <= j]}
        ELSE Range(children)

\* MCTSNode.expand on node n; k is the outcome of shuffle_remaining in state.copy().
\* The outcomes are those of child_state.apply_action(action), whose result is ignored.
MCTSNode_expand(S, nodes, n, k) ==
    LET node == nodes[n]
        action == Last(node.untried_actions)
        c == Len(nodes) + 1
    IN  { LET child == MCTSNode(out.S, Len(out.S.games), n, Some(action),
                                node.use_combined_actions)
          IN  [S |-> out.S, rand |-> out.rand, child |-> c,
               nodes |-> Append([nodes EXCEPT ![n].untried_actions = Front(@),
                                              ![n].children = Append(@, c)],
                                child)]
          : out \in expand(S, node.state, k, action) }

(***************************************************************************)
(* mcts_agent.py: MCTSAgent                                                *)
(***************************************************************************)
\* MCTSAgent.__init__: the fields the search reads.  goal_selection_iteration_multiplier
\* is kept in tenths (the default 2.5 is 25).
MCTSAgent(max_iterations, use_combined_actions, late_game_threshold, use_heuristic, deterministic, depth) ==
    [max_iterations |-> max_iterations, use_combined_actions |-> use_combined_actions,
     late_game_threshold |-> late_game_threshold, use_heuristic |-> use_heuristic,
     use_deterministic_rollout |-> deterministic,
     goal_selection_iteration_multiplier |-> 25,
     goal_selection_rollout_depth |-> depth]

\* int(self.max_iterations * self.goal_selection_iteration_multiplier) in goal selection
_get_iterations_for_phase(S, game, agent) ==
    IF S.games[game].turn_phase = GOAL_SELECTION
    THEN (agent.max_iterations * agent.goal_selection_iteration_multiplier) \div 10
    ELSE agent.max_iterations

\* float(state.get_final_score()): a score that is the final score of the position
FinalScore(S, g) ==
    [evaluator |-> "get_final_score", points |-> Some(get_final_score(S, g)),
     grid |-> Grid(S, g), goals |-> Goals(S, g)]

\* _evaluate_state / heuristic.evaluate_state(state, config): the real-valued estimate is
\* not computed, the score is kept as the evaluator and what it reads of the state
evaluate_state(S, g) ==
    [evaluator |-> "evaluate_state", points |-> Nothing,
     grid |-> Grid(S, g), goals |-> Goals(S, g)]

\* the outcome of random.choice(actions) a rollout continues from
ExploredPick(actions) == {actions[Len(actions)]}

\* the loop of play_random_game and of _partial_rollout on game g: random moves until the
\* game is over, no action is left, or depth moves are made (depth -1: no limit)
RECURSIVE RandomPlay(_, _, _, _, _)
RandomPlay(S, g, use_combined_actions, depth, moves_made) ==
    IF is_game_over(S, g) \/ moves_made = depth
    THEN {[S |-> S, moves |-> moves_made]}
    ELSE LET actions == phase_actions(S, g, use_combined_actions)
         IN  IF actions = <<>>
             THEN {[S |-> S, moves |-> moves_made]}
             ELSE UNION { UNION { RandomPlay(out.S, g, use_combined_actions, depth,
                                             moves_made + 1)
                                  : out \in {o \in apply_action(S, g, action) :
                                                ExploredDraws(o.rand)} }
                          : action \in ExploredPick(actions) }

\* an evaluation: the score, the moves played on the copy to get it, and whether the copy
\* was played to the end of the game
Evaluation(score, moves, over) == [score |-> score, moves |-> moves, over |-> over]

\* _heuristic_evaluate
_heuristic_evaluate(S, g) == {Evaluation(evaluate_state(S, g), 0, is_game_over(S, g))}

\* the three rollouts: state.copy() and the loop on the copy.  depth is the most moves
\* played, -1 for no limit.  A game left unfinished is valued by the heuristic evaluator
\* when the depth is limited (_partial_rollout), and at its final score otherwise.
Rollout(S, g, agent, depth, k) ==
    LET T == copy(S, g, k)
        c == Len(T.games)
    IN  { IF depth # -1 /\ ~is_game_over(end.S, c)
          THEN Evaluation(evaluate_state(end.S, c), end.moves, FALSE)
          ELSE Evaluation(FinalScore(end.S, c), end.moves, is_game_over(end.S, c))
          : end \in RandomPlay(T, c, agent.use_combined_actions, depth, 0) }

\* _full_rollout: state.copy().play_random_game(use_combined_actions)
_full_rollout(S, g, agent, k) == Rollout(S, g, agent, -1, k)

\* _partial_rollout: a full rollout when depth is -1
_partial_rollout(S, g, agent, depth, k) == Rollout(S, g, agent, depth, k)

\* _deterministic_rollout: the loop of play_random_game with the action of the highest
\* heuristic estimate in place of a random one; the estimates not being computed, the
\* action taken is any of the list
_deterministic_rollout(S, g, agent, k) == Rollout(S, g, agent, -1, k)

\* the number of empty cells of a board no tile was placed on (_simulate: remaining == 22)
FULL_BOARD_EMPTY == 22

\* _simulate without the rule for the positions just after goal selection
_simulate_two_rules(S, g, agent, k) ==
    LET remaining == Len(get_empty_positions(Grid(S, g)))
        direct == remaining > agent.late_game_threshold /\ agent.use_heuristic
    IN  IF direct THEN _heuristic_evaluate(S, g) ELSE Rollout(S, g, agent, -1, k)

\* _simulate(node), g the state of the node.  The rules pick the evaluation: the
\* heuristic evaluator on the state itself, or a rollout and its depth
\* (_partial_rollout(state, goal_selection_rollout_depth) just after goal selection,
\* _deterministic_rollout(state) or _full_rollout(state) in the late game and when the
\* heuristic is off).
_simulate(S, g, agent, k) ==
    LET remaining == Len(get_empty_positions(Grid(S, g)))
        is_early_game_after_goals ==
            S.games[g].turn_phase # GOAL_SELECTION /\ remaining = FULL_BOARD_EMPTY
        depth == IF is_early_game_after_goals /\ agent.goal_selection_rollout_depth # 0
                 THEN Some(agent.goal_selection_rollout_depth)
                 ELSE IF remaining <= agent.late_game_threshold THEN Some(-1)
                 ELSE IF agent.use_heuristic THEN Nothing
                 ELSE Some(-1)
    IN  IF depth = Nothing THEN _heuristic_evaluate(S, g)
        ELSE Rollout(S, g, agent, depth[1], k)

\* a backpropagation that stops at the evaluated node
_backpropagate_node_only(nodes, n, score) ==
    IF n = 0 THEN nodes
    ELSE [nodes EXCEPT ![n].visits = @ + 1, ![n].total_score = Append(@, score)]

\* _backpropagate(node, score)
RECURSIVE _backpropagate(_, _, _)
_backpropagate(nodes, n, score) ==
    IF n = 0 THEN nodes
    ELSE _backpropagate([nodes EXCEPT ![n].visits = @ + 1,
                                      ![n].total_score = Append(@, score)],
                        nodes[n].parent, score)

\* _select(node): the node the descent ends at, or raised when best_child is asked for
\* the maximum of no children (ValueError)
RECURSIVE _select(_, _, _)
_select(S, nodes, n) ==
    IF is_terminal(S, nodes[n]) THEN {[raised |-> FALSE, node |-> n]}
    ELSE IF ~is_fully_expanded(nodes[n]) THEN {[raised |-> FALSE, node |-> n]}
    ELSE IF nodes[n].children = <<>> THEN {[raised |-> TRUE, node |-> n]}
    ELSE UNION {_select(S, nodes, c) : c \in best_child(nodes, n)}

\* one pass of the loop of select_action / select_action_with_analysis on the tree whose
\* root is node 1: _select, expand, _simulate, _backpropagate.  k and r are the outcomes of
\* shuffle_remaining in the copy expand makes and in the copy the evaluation plays on.
\* A pass that raised leaves the tree as it was.
iteration(S, nodes, agent, k, r) ==
    UNION {
        IF sel.raised
        THEN {[raised |-> TRUE, S |-> S, nodes |-> nodes, node |-> sel.node,
               expanded |-> FALSE, evaluation |-> <<>>, rand |-> <<>>]}
        ELSE LET expands == ~is_terminal(S, nodes[sel.node])
                            /\ ~is_fully_expanded(nodes[sel.node])
                 grown == IF expands
                          THEN MCTSNode_expand(S, nodes, sel.node, k)
                          ELSE {[S |-> S, rand |-> <<>>, child |-> sel.node,
                                 nodes |-> nodes]}
             IN  UNION {
                     { [raised |-> FALSE, S |-> x.S,
                        nodes |-> _backpropagate(x.nodes, x.child, e.score),
                        node |-> x.child, expanded |-> expands,
                        evaluation |-> <<e>>, rand |-> x.rand]
                       : e \in _simulate(x.S, x.nodes[x.child].state, agent, r) }
                     : x \in grown }
        : sel \in _select(S, nodes, 1) }

\* the child added last, whatever its visits
last_child(nodes, children) == children[Len(children)]

\* max(root.children, key=lambda c: c.visits): the first of the most visited children
most_visited(nodes, children) ==
    LET top == {i \in DOMAIN children :
                   \A j \in DOMAIN children :
                       nodes[children[j]].visits <= nodes[children[i]].visits}
    IN  children[CHOOSE i \in top : \A j \in top : i <= j]

\* sorted(root.children, key=lambda c: c.visits, reverse=True): the sort is stable
RECURSIVE sorted_by_visits(_, _)
sorted_by_visits(nodes, children) ==
    IF children = <<>> THEN <<>>
    ELSE LET rest == sorted_by_visits(nodes, Front(children))
             c == Last(children)
             Ahead(x) == nodes[x].visits >= nodes[c].visits
             Behind(x) == nodes[x].visits < nodes[c].visits
         IN  SelectSeq(rest, Ahead) \o <<c>> \o SelectSeq(rest, Behind)

\* what a call returns: the action (Nothing is None) and, from the analysis variant, the
\* candidates (action, visits, avg_score); avg_score is kept as the scores summed and the
\* visits they are divided by
Returned(action, candidates) == [action |-> action, candidates |-> candidates]

Candidate(action, visits, total_score) ==
    [action |-> action, visits |-> visits, avg_score |-> <<total_score, visits>>]

\* the end of select_action, after the loop: the values it may return
select_action_return(S, game, nodes, agent) ==
    IF nodes[1].children = <<>>
    THEN LET actions == phase_actions(S, game, agent.use_combined_actions)
         IN  IF actions # <<>>
             THEN {Returned(Some(a), <<>>) : a \in Range(actions)}
             ELSE {Returned(Nothing, <<>>)}
    ELSE {Returned(nodes[most_visited(nodes, nodes[1].children)].action, <<>>)}

\* the end of select_action_with_analysis, after the loop
select_action_with_analysis_return(S, game, nodes, agent, n_candidates) ==
    IF nodes[1].children = <<>>
    THEN LET actions == phase_actions(S, game, agent.use_combined_actions)
         IN  IF actions # <<>>
             THEN {Returned(Some(actions[1]), <<Candidate(Some(actions[1]), 0, <<>>)>>)}
             ELSE {Returned(Nothing, <<>>)}
    ELSE LET sorted_children == sorted_by_visits(nodes, nodes[1].children)
             shown == SubSeq(sorted_children, 1,
                             IF n_candidates < Len(sorted_children) THEN n_candidates
                             ELSE Len(sorted_children))
         IN  {Returned(nodes[sorted_children[1]].action,
                       [i \in DOMAIN shown |->
                           Candidate(nodes[shown[i]].action, nodes[shown[i]].visits,
                                     nodes[shown[i]].total_score)])}

(***************************************************************************)
(* Specification: one call of select_action or select_action_with_analysis *)
(* on game 1.  The second game is the state of the root, the later ones    *)
(* the states of the nodes expand() adds; ret is the call in progress: the *)
(* agent, the tree, the passes of the loop made, and what was returned.    *)
(***************************************************************************)
DEFAULT_N_CANDIDATES == 5

Search(op, agent, nodes, iterations, completed, status, last, result) ==
    [op |-> op, agent |-> agent, nodes |-> nodes, iterations |-> iterations,
     completed |-> completed, status |-> status, last |-> last, result |-> result]

\* the agents a search is made with: the default evaluation (heuristic, rollouts from 5
\* empty cells down, 8 moves played after goal selection), a heuristic one with a low
\* threshold and no moves played after goal selection, and one of rollouts only
EvaluationProfiles ==
    { <<5, TRUE, FALSE, 8>>, <<1, TRUE, FALSE, 0>>, <<5, FALSE, TRUE, -1>> }

Agents ==
    { MCTSAgent(m, c, p[1], p[2], p[3], p[4]) :
        m \in 0..MaxIterations, c \in BOOLEAN, p \in EvaluationProfiles }

\* the boards a search is made on, by their empty cells: few, and all 22 (BOARD_1 itself)
SearchBoards == (1..(MaxEmpty - 2)) \cup {FULL_BOARD_EMPTY}

InitSearch ==
    \E e \in SearchBoards :
        /\ games = NewGame(TestBoard(e), 0).games
        /\ heap = NewGame(TestBoard(e), 0).heap
        /\ ret = Search("idle", <<>>, <<>>, 0, 0, "idle", <<>>, <<>>)

\* the game is played up to the position the agent is asked about:
\* game.apply_action(game.get_legal_actions()[0])
AdvanceGame ==
    /\ ret.status = "idle"
    /\ Len(History(State, 1)) < MaxAdvance
    /\ get_legal_actions(State, 1) # <<>>
    /\ \E out \in apply_action(State, 1, get_legal_actions(State, 1)[1]) :
          /\ ExploredDraws(out.rand)
          /\ games' = out.S.games
          /\ heap' = out.S.heap
    /\ UNCHANGED ret

\* agent.select_action(game) or agent.select_action_with_analysis(game), up to the loop:
\* root = MCTSNode(state=game.copy(), ...); iterations = _get_iterations_for_phase(game).
\* The two methods run the same loop; which one was called shows when it returns.
SelectAction ==
    /\ ret.status = "idle"
    /\ \E agent \in Agents, k \in ExploredShuffles :
          LET T == copy(State, 1, k)
              root == MCTSNode(T, Len(T.games), 0, Nothing, agent.use_combined_actions)
          IN  \* the agent of rollouts only is asked about the boards of few empty cells
              /\ agent.use_heuristic
                 \/ Len(get_empty_positions(Grid(State, 1))) <= MaxEmpty
              /\ games' = T.games
              /\ heap' = T.heap
              /\ ret' = Search("select", agent, <<root>>,
                               _get_iterations_for_phase(State, 1, agent), 0,
                               "running", <<>>, <<>>)

\* one pass of the loop; a pass that raises ends the call
Iterate ==
    /\ ret.status = "running"
    /\ ret.completed < ret.iterations
    /\ \E k \in ExploredShuffles, r \in ExploredShuffles :
          \E it \in iteration(State, ret.nodes, ret.agent, k, r) :
              /\ ExploredDraws(it.rand)
              /\ games' = it.S.games
              /\ heap' = it.S.heap
              /\ ret' = IF it.raised
                        THEN [ret EXCEPT !.status = "raised", !.last = it]
                        ELSE [ret EXCEPT !.nodes = it.nodes, !.completed = @ + 1,
                                         !.last = it]

\* the loop is over: select_action returns
Return ==
    /\ ret.status = "running"
    /\ ret.completed = ret.iterations
    /\ \E res \in select_action_return(State, 1, ret.nodes, ret.agent) :
          ret' = [ret EXCEPT !.op = "select_action", !.status = "returned",
                             !.result = res]
    /\ UNCHANGED <<games, heap>>

\* the loop is over: select_action_with_analysis returns
ReturnWithAnalysis ==
    /\ ret.status = "running"
    /\ ret.completed = ret.iterations
    /\ \E res \in select_action_with_analysis_return(State, 1, ret.nodes, ret.agent,
                                                     DEFAULT_N_CANDIDATES) :
          ret' = [ret EXCEPT !.op = "select_action_with_analysis",
                             !.status = "returned", !.result = res]
    /\ UNCHANGED <<games, heap>>

NextSearch ==
    \/ AdvanceGame
    \/ SelectAction
    \/ Iterate
    \/ Return
    \/ ReturnWithAnalysis

SpecSearch == InitSearch /\ [][NextSearch]_vars

(***************************************************************************)
(* Specification: a grid filled tile by tile with grid.set_tile and scored *)
(* by the cats and the button scan (tests/test_cat_scoring_rules.py,       *)
(* tests/test_buttons.py).  heap[1] is the grid dict.                      *)
(***************************************************************************)
GridRef == 1

\* the cells the tiles are set on: the row r = 0 from west to east, then cells of the
\* row r = -1 touching its west end
RegionCells ==
    [i \in 1..7 |-> <<i - 4, 0, 4 - i>>] \o << <<-2, -1, 3>>, <<-1, -1, 2>>, <<0, -1, 1>> >>

Region == {RegionCells[i] : i \in (1..RegionSize) \cap DOMAIN RegionCells}

\* the tiles set: one of the first colour and pattern, one of the second colour and pattern
GroupTiles == {Tile(1, 1), Tile(2, 2)}

\* the cats that score the grid, each with the patterns of these tiles
TestCats ==
    { Cat("Millie", 3, <<1, 2>>), Cat("Rumi", 5, <<1, 2>>),
      Cat("Tecolote", 7, <<1, 2>>), Cat("Leo", 11, <<1, 2>>) }

\* grid = HexGrid() with the goal positions taken out: no tile anywhere
InitGroups ==
    /\ games = <<>>
    /\ heap = << [p \in Range(GridKeys) |-> None] >>
    /\ ret = "HexGrid"

\* grid.set_tile(q, r, s, tile) on a cell that holds no tile
SetTile ==
    /\ \E pos \in Region, tile \in GroupTiles :
          /\ heap[GridRef][pos] = None
          /\ heap' = [heap EXCEPT ![GridRef] = set_tile(@, pos, tile)]
    /\ ret' = "set_tile"
    /\ UNCHANGED games

NextGroups == SetTile

SpecGroups == InitGroups /\ [][NextGroups]_vars

(***************************************************************************)
(* Scoring a line of one pattern: five tiles of a pattern of Leo set along  *)
(* an axis, a sixth set at an end of the line, tiles of another pattern     *)
(* set beside them (tests/test_cat_scoring_rules.py,                        *)
(* TestAdjacentGroupsSeparation).  heap[1] is the grid dict.                *)
(***************************************************************************)
\* leo.patterns
LeoPatterns == <<1, 2>>

\* the lines of ALL_5_LINES on playable cells only
PlayableLines ==
    LET Playable(line) == \A j \in DOMAIN line : line[j] \in Range(GridKeys)
    IN  SelectSeq(ALL_5_LINES, Playable)

\* the cells that continue a line by one step at either end, on the grid
LineEnds(line) ==
    LET d == [c \in 1..3 |-> line[2][c] - line[1][c]]
        before == [c \in 1..3 |-> line[1][c] - d[c]]
        after == [c \in 1..3 |-> line[Len(line)][c] + d[c]]
    IN  {before, after} \cap Range(GridKeys)

\* what has been set on the grid: the pattern of the line's tiles, the line, the sixth cell
Setup(pattern, line, sixth, others) ==
    [pattern |-> pattern, line |-> line, sixth |-> sixth, others |-> others]

InitLine ==
    /\ games = <<>>
    /\ heap = << [p \in Range(GridKeys) |-> None] >>
    /\ ret = Setup(0, <<>>, Nothing, 0)

RECURSIVE set_tiles(_, _, _, _)
\* for pos in line: grid.set_tile(*pos, tile), from the i-th position on
set_tiles(grid, line, tile, i) ==
    IF i > Len(line) THEN grid
    ELSE set_tiles(set_tile(grid, line[i], tile), line, tile, i + 1)

\* five tiles of one pattern of Leo set along a playable line
SetLine ==
    /\ ret.line = <<>>
    /\ \E k \in DOMAIN PlayableLines, p \in Range(LeoPatterns) :
          /\ heap' = [heap EXCEPT ![GridRef] = set_tiles(@, PlayableLines[k], Tile(1, p), 1)]
          /\ ret' = Setup(p, PlayableLines[k], Nothing, 0)
    /\ UNCHANGED games

\* a sixth tile of the pattern set at an end of the line, on the same axis
SetSixth ==
    /\ ret.line # <<>>
    /\ ret.sixth = Nothing
    /\ \E pos \in LineEnds(ret.line) :
          /\ heap[GridRef][pos] = None
          /\ heap' = [heap EXCEPT ![GridRef] = set_tile(@, pos, Tile(1, ret.pattern))]
          /\ ret' = [ret EXCEPT !.sixth = Some(pos)]
    /\ UNCHANGED games

\* a tile of the other pattern of Leo set on a cell that holds no tile
SetOther ==
    /\ ret.line # <<>>
    /\ ret.others < MaxOther
    /\ \E pos \in Range(GridKeys) :
          /\ heap[GridRef][pos] = None
          /\ heap' = [heap EXCEPT ![GridRef] =
                         set_tile(@, pos, Tile(2, CHOOSE q \in Range(LeoPatterns) : q # ret.pattern))]
          /\ ret' = [ret EXCEPT !.others = @ + 1]
    /\ UNCHANGED games

NextLine == SetLine \/ SetSixth \/ SetOther

SpecLine == InitLine /\ [][NextLine]_vars

(***************************************************************************)
(* Scoring a goal: tiles set one by one on the six cells around a goal      *)
(* position, every goal class scored after each (tests/test_goals.py).      *)
(* heap[1] is the grid dict.                                                *)
(***************************************************************************)
\* the tiles set around the goal: one of every colour and pattern, and two that share
\* a colour or a pattern with them
GoalTiles == {Tile(i, i) : i \in 1..NumColors} \cup {Tile(1, 2), Tile(2, 1)}

\* self.get_neighbor_positions() of the tests, walked from the front or from the back
NeighborWalk(goal_position, order) ==
    LET neighbors == get_neighbors(goal_position)
    IN  IF order = "forward" THEN neighbors
        ELSE [i \in DOMAIN neighbors |-> neighbors[Len(neighbors) + 1 - i]]

\* what the test has set up: the goal position, the walk, the tiles set so far
GoalSetup(position, order, tiles) == [position |-> position, order |-> order, tiles |-> tiles]

\* grid = HexGrid() of a game, goal positions taken out; the goal position is any of the three
InitGoal ==
    /\ games = <<>>
    /\ heap = << [p \in Range(GridKeys) |-> None] >>
    /\ \E i \in DOMAIN GOAL_POSITIONS, order \in {"forward", "backward"} :
          ret = GoalSetup(GOAL_POSITIONS[i], order, <<>>)

\* grid.set_tile(*pos, tile) on the next cell of the walk; the tiles of one board are set
\* in ascending order of colour and pattern
SetNeighbor ==
    /\ Len(ret.tiles) < Len(NeighborWalk(ret.position, ret.order))
    /\ \E tile \in GoalTiles :
          /\ ret.tiles # <<>> => ret.tiles[Len(ret.tiles)] <= tile
          /\ heap' = [heap EXCEPT ![GridRef] =
                         set_tile(@, NeighborWalk(ret.position, ret.order)[Len(ret.tiles) + 1], tile)]
          /\ ret' = [ret EXCEPT !.tiles = Append(@, tile)]
    /\ UNCHANGED games

NextGoal == SetNeighbor

SpecGoal == InitGoal /\ [][NextGoal]_vars

(***************************************************************************)
(* The three scorers called on a board under construction: cat.score and    *)
(* cat.score_with_usage with a set the caller keeps, goal.score,            *)
(* score_buttons.  heap[1] is the grid dict, heap[2] the caller's set.      *)
(***************************************************************************)
UsedRef == 2

\* the cells tiles are set on, from the centre of the row r = 0 outwards
ScoreRowCells ==
    << <<0, 0, 0>>, <<1, 0, -1>>, <<-1, 0, 1>>, <<2, 0, -2>>, <<-2, 0, 2>>, <<3, 0, -3>>, <<-3, 0, 3>> >>

ScoreRegion == {ScoreRowCells[i] : i \in (1..ScoreCells) \cap DOMAIN ScoreRowCells}

\* the tiles the board starts with: four of the six cells around the goal position (0, 1, -1)
ScoreBoard ==
    << << <<1, 1, -2>>, 1, 1>>, << <<0, 2, -2>>, 1, 1>>,
       << <<-1, 2, -1>>, 2, 2>>, << <<-1, 1, 0>>, 2, 2>> >>

\* the goals scored: one of every class at the third goal position
ScoreGoals == {[kind |-> k, position |-> GOAL_POSITIONS[3]] : k \in DOMAIN ALL_GOAL_CLASSES}

\* what a scorer returned: the scorer, the object it was called on, its value
Scored(scorer, of, value) == [scorer |-> scorer, of |-> of, value |-> value]

InitScore ==
    /\ games = <<>>
    /\ heap = << initialize_from_config([p \in Range(GridKeys) |-> None], ScoreBoard), {} >>
    /\ ret = Scored("none", <<>>, 0)

\* grid.set_tile(q, r, s, tile) on a cell that holds no tile
ScoreSetTile ==
    /\ \E pos \in ScoreRegion, tile \in GroupTiles :
          /\ heap[GridRef][pos] = None
          /\ heap' = [heap EXCEPT ![GridRef] = set_tile(@, pos, tile)]
    /\ ret' = Scored("none", <<>>, 0)
    /\ UNCHANGED games

\* cat.score_with_usage(grid, used): the value returned, the caller's set after the call
ScoreCat ==
    /\ \E cat \in TestCats :
          /\ ret' = Scored("cat", cat, score_with_usage(cat, heap[GridRef], heap[UsedRef]))
          /\ heap' = [heap EXCEPT ![UsedRef] = find_all_groups_used_tiles(cat, heap[GridRef], @)]
    /\ UNCHANGED games

\* goal.score(grid)
ScoreGoal ==
    /\ \E goal \in ScoreGoals : ret' = Scored("goal", goal, Goal_score(goal, heap[GridRef]))
    /\ UNCHANGED <<games, heap>>

\* score_buttons(grid)
ScoreButtons ==
    /\ ret' = Scored("buttons", <<>>, score_buttons(heap[GridRef]))
    /\ UNCHANGED <<games, heap>>

NextScore == ScoreSetTile \/ ScoreCat \/ ScoreGoal \/ ScoreButtons

SpecScore == InitScore /\ [][NextScore]_vars

(***************************************************************************)
(* heuristic.py.  The estimates are real numbers; they are computed here in *)
(* units of 1/1800, in which every weight, decay and progress value of the  *)
(* module is a whole number.                                                *)
(***************************************************************************)
HeuristicUnit == 1800

\* tuple comparison start < end of the line enumerations
TupleLess(a, b) ==
    \/ a[1] < b[1]
    \/ a[1] = b[1] /\ a[2] < b[2]
    \/ a[1] = b[1] /\ a[2] = b[2] /\ a[3] < b[3]

\* enumerate_all_5_lines / enumerate_all_3_lines on the positions of a grid: from every
\* start, in each of the three directions, the line is kept if it stays on the grid and
\* its start is less than its end
enumerate_all_lines(all_pos, length) ==
    LET line(start, d) ==
            [i \in 1..length |-> <<start[1] + d[1] * (i - 1),
                                   start[2] + d[2] * (i - 1),
                                   start[3] + d[3] * (i - 1)>>]
        cand == [k \in 1..(Len(all_pos) * 3) |->
                    line(all_pos[((k - 1) \div 3) + 1], _LINE_DIRECTIONS[((k - 1) % 3) + 1])]
        Kept(l) == /\ \A i \in 1..length : l[i] \in Range(all_pos)
                   /\ TupleLess(l[1], l[length])
    IN  SelectSeq(cand, Kept)

\* the lists the module caches on its first call, made on a game's grid
enumerate_all_5_lines == enumerate_all_lines(GridKeys, 5)
enumerate_all_3_lines == enumerate_all_lines(GridKeys, 3)

\* evaluate_line_for_pattern: (matching_count, is_blocked)
evaluate_line_for_pattern(grid, line, pattern) ==
    [matching |-> Cardinality({i \in DOMAIN line : TileMatches(grid, line[i], "pattern", pattern)}),
     blocked |-> \E i \in DOMAIN line :
                    grid_get(grid, line[i]) # None /\ Pattern(grid_get(grid, line[i])) # pattern]

\* the loop over line_scores: full potential for a line that shares no position with the
\* lines before it, decayed potential otherwise
RECURSIVE AwardLines(_, _, _, _, _)
AwardLines(line_scores, i, awarded_positions, full, decayed) ==
    IF i > Len(line_scores) THEN 0
    ELSE LET positions == Range(line_scores[i].line)
             count == line_scores[i].count
         IN  (IF awarded_positions \cap positions = {} THEN full[count] ELSE decayed[count])
             + AwardLines(line_scores, i + 1, awarded_positions \cup positions, full, decayed)

\* evaluate_leo_potential: 0.5, 0.3 or 0.15 of the point value by the count of matching
\* tiles (0.15 for every count that is not 4 or 3), times OVERLAP_DECAY on overlap
evaluate_leo_potential(grid, cat) ==
    LET full == [count \in 2..5 |-> cat.point_value *
                    (IF count = 4 THEN 900 ELSE IF count = 3 THEN 540 ELSE 270)]
        decayed == [count \in 2..5 |-> cat.point_value *
                    (IF count = 4 THEN 630 ELSE IF count = 3 THEN 216 ELSE 54)]
        scored(pattern) ==
            LET Open(line) == LET e == evaluate_line_for_pattern(grid, line, pattern)
                              IN  ~e.blocked /\ e.matching >= 2
                open == SelectSeq(enumerate_all_5_lines, Open)
                entry == [i \in DOMAIN open |->
                            [count |-> evaluate_line_for_pattern(grid, open[i], pattern).matching,
                             line |-> open[i]]]
                With(n) == LET Has(e) == e.count = n IN SelectSeq(entry, Has)
            IN  With(5) \o With(4) \o With(3) \o With(2)
    IN  AwardLines(scored(cat.patterns[1]), 1, {}, full, decayed)
        + AwardLines(scored(cat.patterns[2]), 1, {}, full, decayed)

\* evaluate_rumi_potential: 0.3 of the point value for a line with 2 of 3, times 0.3 on overlap
evaluate_rumi_potential(grid, cat) ==
    LET full == [count \in {2} |-> cat.point_value * 540]
        decayed == [count \in {2} |-> cat.point_value * 162]
        scored(pattern) ==
            LET Open(line) == LET e == evaluate_line_for_pattern(grid, line, pattern)
                              IN  ~e.blocked /\ e.matching = 2
                open == SelectSeq(enumerate_all_3_lines, Open)
            IN  [i \in DOMAIN open |-> [count |-> 2, line |-> open[i]]]
    IN  AwardLines(scored(cat.patterns[1]), 1, {}, full, decayed)
        + AwardLines(scored(cat.patterns[2]), 1, {}, full, decayed)

\* the pairs of adjacent positions whose tiles both have the attribute value
AdjacentPairs(grid, attr, value) ==
    LET matching == {p \in DOMAIN grid : TileMatches(grid, p, attr, value)}
    IN  UNION {{{p, n} : n \in Range(get_neighbors(p)) \cap matching} : p \in matching}

\* evaluate_millie_potential: 0.3 of the point value for every pair of adjacent tiles of
\* the pattern with an empty cell next to either
evaluate_millie_potential(grid, pattern, point_value) ==
    LET has_third_space(pair) ==
            \E p \in pair : \E n \in Range(get_neighbors(p)) \ pair :
                n \in DOMAIN grid /\ grid[n] = None
    IN  Cardinality({pair \in AdjacentPairs(grid, "pattern", pattern) : has_third_space(pair)})
        * point_value * 540

estimate_cat_potential(grid, cat) ==
    IF cat.name = "Millie"
    THEN evaluate_millie_potential(grid, cat.patterns[1], cat.point_value)
         + evaluate_millie_potential(grid, cat.patterns[2], cat.point_value)
    ELSE IF cat.name = "Leo" THEN evaluate_leo_potential(grid, cat)
    ELSE IF cat.name = "Rumi" THEN evaluate_rumi_potential(grid, cat)
    ELSE 0

evaluate_cats(S, g) ==
    SumSeq([i \in DOMAIN S.games[g].cats |->
                Cat_score(S.games[g].cats[i], Grid(S, g)) * HeuristicUnit
                + estimate_cat_potential(Grid(S, g), S.games[g].cats[i])])

\* the counts of Counter(values), and the progress values in thirtieths
MaxCount(values) ==
    LET count(v) == Cardinality({i \in DOMAIN values : values[i] = v})
    IN  CHOOSE n \in 0..Len(values) :
            /\ \A v \in Range(values) : count(v) <= n
            /\ values # <<>> => \E v \in Range(values) : count(v) = n

_check_3_3_for_values(values) ==
    LET num_types == Cardinality(Range(values))
        first == MaxCount(values)
    IN  IF num_types = 0 THEN 0
        ELSE IF num_types > 2 THEN 0
        ELSE IF first > 3 THEN 0
        ELSE IF num_types = 2 /\ first = 3 /\ Len(values) = 6 THEN 30
        ELSE IF num_types = 1 THEN 9
        ELSE IF first - (Len(values) - first) <= 1 THEN 24
        ELSE 15

_check_2_2_2_for_values(values) ==
    LET num_types == Cardinality(Range(values))
        first == MaxCount(values)
    IN  IF num_types = 0 THEN 0
        ELSE IF num_types > 3 THEN 0
        ELSE IF first > 2 THEN 0
        ELSE IF num_types = 3 /\ Len(values) = 6 THEN 30
        ELSE IF num_types = 1 THEN 6
        ELSE IF num_types = 2 THEN 15
        ELSE IF Len(values) = 3 * first THEN 27
        ELSE 21

_check_unique_for_values(values) ==
    IF values = <<>> THEN 0
    ELSE IF Cardinality(Range(values)) < Len(values) THEN 0
    ELSE 5 * Cardinality(Range(values))

\* estimate_goal_potential: the better of single_max * max(progress) and
\* double_max * min(progress), times filled / 6, times goal_discount 0.4
estimate_goal_potential(grid, goal) ==
    LET tiles == get_neighbor_tiles(goal, grid)
        name == ALL_GOAL_CLASSES[goal.kind]
        colors == [i \in DOMAIN tiles |-> Color(tiles[i])]
        patterns == [i \in DOMAIN tiles |-> Pattern(tiles[i])]
        Max(a, b) == IF a >= b THEN a ELSE b
        Min(a, b) == IF a <= b THEN a ELSE b
        best(single_max, double_max, color_progress, pattern_progress) ==
            Max(single_max * Max(color_progress, pattern_progress),
                double_max * Min(color_progress, pattern_progress))
    IN  IF Len(tiles) = 0 THEN 0
        ELSE IF name = "AAA-BBB"
        THEN best(8, 13, _check_3_3_for_values(colors), _check_3_3_for_values(patterns))
             * Len(tiles) * 4
        ELSE IF name = "AA-BB-CC"
        THEN best(7, 11, _check_2_2_2_for_values(colors), _check_2_2_2_for_values(patterns))
             * Len(tiles) * 4
        ELSE IF name = "All Unique"
        THEN best(10, 15, _check_unique_for_values(colors), _check_unique_for_values(patterns))
             * Len(tiles) * 4
        ELSE 0

evaluate_goals(S, g) ==
    SumSeq([i \in DOMAIN Goals(S, g) |->
                LET actual == Goal_score(Goals(S, g)[i], Grid(S, g))
                IN  actual * HeuristicUnit
                    + (IF actual = 0 THEN estimate_goal_potential(Grid(S, g), Goals(S, g)[i]) ELSE 0)])

\* count_color_pairs: the positions whose tile has the colour and exactly one neighbour
\* of the colour, // 2
count_color_pairs(grid, color) ==
    LET same(p) == {n \in Range(get_neighbors(p)) : TileMatches(grid, n, "color", color)}
    IN  Cardinality({p \in DOMAIN grid :
                        TileMatches(grid, p, "color", color) /\ Cardinality(same(p)) = 1}) \div 2

\* evaluate_buttons: current score + 1.0 a pair + rainbow potential
evaluate_buttons(grid) ==
    LET button_counts == count_buttons_by_color(grid)
        pairs == [color \in 1..NumColors |-> count_color_pairs(grid, color)]
        colors_with_buttons == Cardinality({c \in 1..NumColors : button_counts[c] >= 1})
        colors_with_potential ==
            colors_with_buttons
            + Cardinality({c \in 1..NumColors : button_counts[c] = 0 /\ pairs[c] > 0})
        rainbow_potential ==
            (IF colors_with_buttons >= 5 THEN 8100
             ELSE IF colors_with_buttons >= 4 THEN 6300
             ELSE IF colors_with_buttons >= 3 THEN 3600
             ELSE 0)
            + (IF colors_with_potential >= 6 /\ colors_with_buttons < 6 THEN 2700
               ELSE IF colors_with_potential >= 5 /\ colors_with_buttons < 5 THEN 1809
               ELSE 0)
    IN  score_buttons(grid) * HeuristicUnit + SumSeq(pairs) * HeuristicUnit + rainbow_potential

\* evaluate_state(game) with the default weights 1.0, as a number
evaluate_state_value(S, g) ==
    evaluate_cats(S, g) + evaluate_goals(S, g) + evaluate_buttons(Grid(S, g))

(***************************************************************************)
(* Specification: play_random_game on a new game on BOARD_1                *)
(* (simulation_mode.py).  ret is the frame of the call: its argument       *)
(* use_combined_actions, whether it has returned, and the score returned.  *)
(***************************************************************************)
\* the choices of random.choice a run continues from: the first goal selection, and the
\* first tile of the hand put on the first empty cell (in the first MaxVaried
\* turns on the last empty cell too), with the first market tile taken
ExploredPlay(actions) ==
    {actions[i] : i \in {j \in DOMAIN actions :
        \/ actions[j] = _enumerate_goal_selection_actions[1]
        \/ /\ actions[j].action_type # "select_goals"
           /\ actions[j].hand_index \in {Nothing, Some(0)}
           /\ actions[j].market_index \in {Nothing, Some(0)}
           /\ actions[j].position \in
                 {Nothing, SomeEmpty(1)}
                 \cup {get_empty_positions(Grid(State, 1))[Len(get_empty_positions(Grid(State, 1)))]
                          : t \in games[1].turn_number + 1..MaxVaried}}}

\* the list the loop of play_random_game draws from
play_actions(S, g, use_combined_actions) ==
    IF S.games[g].turn_phase = GOAL_SELECTION THEN get_legal_actions(S, g)
    ELSE IF use_combined_actions THEN get_combined_legal_actions(S, g)
    ELSE get_legal_actions(S, g)

Frame(use_combined_actions, returned, score) ==
    [use_combined_actions |-> use_combined_actions, returned |-> returned, score |-> score]

\* game = SimulationMode(BOARD_1); game.play_random_game(use_combined_actions) is entered
InitPlay ==
    \E use_combined_actions \in BOOLEAN, k \in 0..(NumSetups - 1) :
        /\ games = NewGame(BOARD_1, k).games
        /\ heap = NewGame(BOARD_1, k).heap
        /\ ret = Frame(use_combined_actions, FALSE, 0)

\* one iteration of the while loop: action = random.choice(actions); apply_action(action)
PlayStep ==
    /\ ~ret.returned
    /\ ~is_game_over(State, 1)
    /\ play_actions(State, 1, ret.use_combined_actions) # <<>>
    /\ \E a \in ExploredPlay(play_actions(State, 1, ret.use_combined_actions)) :
          \E out \in apply_action(State, 1, a) :
              /\ ExploredDraws(out.rand)
              /\ games' = out.S.games
              /\ heap' = out.S.heap
    /\ UNCHANGED ret

\* the loop ends (the game is over, or the list is empty): return self.get_final_score()
PlayReturn ==
    /\ ~ret.returned
    /\ \/ is_game_over(State, 1)
       \/ play_actions(State, 1, ret.use_combined_actions) = <<>>
    /\ ret' = Frame(ret.use_combined_actions, TRUE, get_final_score(State, 1))
    /\ UNCHANGED <<games, heap>>

NextPlay ==
    \/ PlayStep
    \/ PlayReturn

SpecPlay == InitPlay /\ [][NextPlay]_vars

(***************************************************************************)
(* Quantities the properties speak about                                   *)
(***************************************************************************)
Phase(S, g) == S.games[g].turn_phase
Turn(S, g) == S.games[g].turn_number
EmptyCount(S, g) == Len(get_empty_positions(Grid(S, g)))
FilledCount(S, g) == Len(GridKeys) - EmptyCount(S, g)
\* hand size + market size + filled board cells + tiles remaining in the bag
TileSum(S, g) == Len(Hand(S, g)) + Len(MarketTiles(S, g)) + FilledCount(S, g) + Len(Bag(S, g))
\* tiles the player holds: in hand or placed on the board
PlayerTiles(S, g) == Len(Hand(S, g)) + FilledCount(S, g)
Next_State == [games |-> games', heap |-> heap']

\* everything of game g a caller can observe, references resolved
View(S, g) ==
    [tile_bag |-> Bag(S, g), tiles |-> Hand(S, g), grid |-> Grid(S, g),
     market_none |-> (S.games[g].market = NoRef), market |-> MarketTiles(S, g),
     goals |-> Goals(S, g), _action_history |-> History(S, g),
     turn_number |-> Turn(S, g), turn_phase |-> Phase(S, g)]

RequiredPhase(action) ==
    IF action.action_type = "select_goals" THEN GOAL_SELECTION
    ELSE IF action.action_type = "choose_market" THEN CHOOSE_MARKET
    ELSE PLACE_TILE

\* the call is rejected and nothing changed
Rejected(S, out) == out.ok = FALSE /\ out.S = S

(***************************************************************************)
(* C1 (as stated): the sum hand + market + filled cells + bag has the same *)
(* value in every state of one game.                                       *)
(***************************************************************************)
C1_SumConstant ==
    [][\A g \in DOMAIN games : TileSum(Next_State, g) = TileSum(State, g)]_vars

(***************************************************************************)
(* C1 (amended): the sum is unchanged by every step in which the player    *)
(* takes no market tile (goal selection, placement, rejected calls) and    *)
(* drops by exactly 3 - the three discards of the simulated players - in   *)
(* every step in which the player takes a market tile.                     *)
(***************************************************************************)
\* market tiles the player takes in the call with outcome out: the growth of hand + board,
\* the initial deal aside
MarketTilesTaken(S, g, out) ==
    IF Phase(S, g) = GOAL_SELECTION THEN 0
    ELSE PlayerTiles(out.S, g) - PlayerTiles(S, g)

C1_SumDropsByDiscards ==
    \A g \in DOMAIN games : \A a \in InputActions(g) :
        \A out \in apply_action(State, g, a) :
            LET taken == MarketTilesTaken(State, g, out)
            IN  /\ taken \in {0, 1}
                /\ TileSum(out.S, g) = TileSum(State, g) - 3 * taken

\* after t >= 1 full turns: t placements, t market tiles taken, 3t tiles discarded
C1_Witness ==
    /\ Turn(State, 1) >= 1
    /\ Len(Hand(State, 1)) = 2
    /\ TileSum(State, 1) = 108 + FilledCount(State, 1) - 4 * Turn(State, 1)

(***************************************************************************)
(* C2: an action applied outside its required phase returns false and      *)
(* leaves the whole game (board, hand, market, bag, goals, turn number,     *)
(* phase, history) unchanged.                                               *)
(***************************************************************************)
C2_WrongPhaseRejected ==
    \A g \in DOMAIN games : \A a \in ProbeActions(g) :
        Phase(State, g) # RequiredPhase(a) =>
            \A out \in apply_action(State, g, a) : Rejected(State, out)

\* a call was rejected during goal selection, where only the phase can be wrong
C2_Witness == Phase(State, 1) = GOAL_SELECTION /\ ret = FALSE

(***************************************************************************)
(* C3 (as stated): in its own phase, a place_tile, choose_market or        *)
(* place_and_choose action whose hand index is out of range, whose market  *)
(* index is out of range, or whose position is not an existing empty       *)
(* playable cell returns false and leaves the game unchanged.              *)
(***************************************************************************)
HandIndexOutOfRange(S, g, a) ==
    a.hand_index # Nothing /\ ~(0 <= a.hand_index[1] /\ a.hand_index[1] < Len(Hand(S, g)))
MarketIndexOutOfRange(S, g, a) ==
    a.market_index # Nothing
    /\ ~(0 <= a.market_index[1] /\ a.market_index[1] < Len(MarketTiles(S, g)))
PositionUnusable(S, g, a) ==
    a.position # Nothing /\ ~is_position_empty(Grid(S, g), a.position)

C3_InvalidRejected ==
    \A g \in DOMAIN games : \A a \in ProbeActions(g) :
        /\ a.action_type \in {"place_tile", "choose_market", "place_and_choose"}
        /\ Phase(State, g) = RequiredPhase(a)
        /\ \/ HandIndexOutOfRange(State, g, a)
           \/ MarketIndexOutOfRange(State, g, a)
           \/ PositionUnusable(State, g, a)
        => \A out \in apply_action(State, g, a) : Rejected(State, out)

(***************************************************************************)
(* C4: the phase changes only along GOAL_SELECTION -> PLACE_TILE,          *)
(* PLACE_TILE -> CHOOSE_MARKET, CHOOSE_MARKET -> PLACE_TILE and            *)
(* PLACE_TILE -> GAME_OVER (a combined action keeps PLACE_TILE); the phase *)
(* is GAME_OVER exactly when no playable cell is empty; GAME_OVER is       *)
(* entered only by the placement that fills the last empty cell; in        *)
(* GAME_OVER both legal-action lists are empty, every apply_action returns *)
(* false and the state never changes again.                                *)
(***************************************************************************)
PhaseEdges ==
    { <<GOAL_SELECTION, PLACE_TILE>>, <<PLACE_TILE, CHOOSE_MARKET>>,
      <<CHOOSE_MARKET, PLACE_TILE>>, <<PLACE_TILE, GAME_OVER>> }

C4_GameOverState ==
    \A g \in DOMAIN games :
        /\ Phase(State, g) = GAME_OVER <=> EmptyCount(State, g) = 0
        /\ Phase(State, g) = GAME_OVER =>
              /\ get_legal_actions(State, g) = <<>>
              /\ get_combined_legal_actions(State, g) = <<>>
              /\ \A a \in ProbeActions(g) :
                    \A out \in apply_action(State, g, a) : Rejected(State, out)

C4_PhaseStep ==
    \A g \in DOMAIN games :
        /\ Phase(Next_State, g) # Phase(State, g) =>
              <<Phase(State, g), Phase(Next_State, g)>> \in PhaseEdges
        /\ Phase(Next_State, g) = GAME_OVER /\ Phase(State, g) # GAME_OVER =>
              /\ EmptyCount(State, g) = 1
              /\ EmptyCount(Next_State, g) = 0
              /\ Len(Hand(Next_State, g)) = Len(Hand(State, g)) - 1
        /\ Phase(State, g) = GAME_OVER => View(Next_State, g) = View(State, g)

C4_PhaseMachine == []C4_GameOverState /\ [][C4_PhaseStep]_vars

\* the game is over and a call made after that was rejected
C4_Witness == Phase(State, 1) = GAME_OVER /\ ret = FALSE

(***************************************************************************)
(* C5: in GOAL_SELECTION the hand is empty, there is no market and the bag *)
(* holds all 108 tiles; get_legal_actions returns exactly 24 select_goals  *)
(* actions, one per ordered choice of 3 distinct indices out of the 4      *)
(* offered goals; applying one of them moves to PLACE_TILE with the chosen *)
(* goals on the 3 goal positions in the chosen order, a hand of 2 tiles    *)
(* and a market of 3 tiles.                                                *)
(***************************************************************************)
OrderedChoices ==
    {t \in (0..3) \X (0..3) \X (0..3) : t[1] # t[2] /\ t[1] # t[3] /\ t[2] # t[3]}

C5_GoalSelection ==
    \A g \in DOMAIN games :
        Phase(State, g) = GOAL_SELECTION =>
            LET legal == get_legal_actions(State, g)
            IN  /\ Hand(State, g) = <<>>
                /\ games[g].market = NoRef
                /\ Len(Bag(State, g)) = 108
                /\ Len(legal) = 24
                /\ \A i \in DOMAIN legal :
                      legal[i] = Action("select_goals", Nothing, Nothing, Nothing,
                                        legal[i].selected_goal_indices)
                /\ {legal[i].selected_goal_indices : i \in DOMAIN legal} = OrderedChoices
                /\ \A i \in DOMAIN legal :
                      \A out \in apply_action(State, g, legal[i]) :
                          /\ out.ok
                          /\ Phase(out.S, g) = PLACE_TILE
                          /\ Len(Goals(out.S, g)) = 3
                          /\ \A j \in 1..3 :
                                /\ Goals(out.S, g)[j].kind =
                                      games[g].goal_options[legal[i].selected_goal_indices[j] + 1]
                                /\ Goals(out.S, g)[j].position = GOAL_POSITIONS[j]
                          /\ Len(Hand(out.S, g)) = 2
                          /\ Len(MarketTiles(out.S, g)) = 3
                          /\ Len(Bag(out.S, g)) = 103

\* goal selection has just been applied: first action of the history, nothing placed yet
C5_Witness ==
    /\ Phase(State, 1) = PLACE_TILE
    /\ Len(History(State, 1)) = 1
    /\ History(State, 1)[1].action_type = "select_goals"
    /\ Len(Goals(State, 1)) = 3
    /\ Len(Hand(State, 1)) = 2

(***************************************************************************)
(* C6 (as stated): a successful market choice (choose_market, or the       *)
(* market part of a non-final place_and_choose) takes the chosen tile,     *)
(* refills, discards a random market tile and refills exactly 3 times,     *)
(* raises the turn number by exactly 1 and sets the phase to PLACE_TILE;   *)
(* afterwards the hand holds 2 tiles, the market 3 and the bag exactly 4   *)
(* fewer than before.                                                      *)
(***************************************************************************)
\* the outcomes of a in which the player took a market tile
MarketChoiceOutcomes(S, g, a) ==
    IF a.action_type = "choose_market"
    THEN {out \in apply_action(S, g, a) : out.ok}
    ELSE IF a.action_type = "place_and_choose" /\ a.market_index # Nothing
            /\ ~MarketIndexOutOfRange(S, g, a)
         THEN {out \in apply_action(S, g, a) : out.ok /\ Phase(out.S, g) # GAME_OVER}
         ELSE {}

C6_MarketChoice ==
    \A g \in DOMAIN games : \A a \in ProbeActions(g) :
        \A out \in MarketChoiceOutcomes(State, g, a) :
            /\ Len(out.rand) = 3
            /\ Turn(out.S, g) = Turn(State, g) + 1
            /\ Phase(out.S, g) = PLACE_TILE
            /\ Len(Hand(out.S, g)) = 2
            /\ Len(MarketTiles(out.S, g)) = 3
            /\ Len(Bag(out.S, g)) = Len(Bag(State, g)) - 4

(***************************************************************************)
(* C7: in every reachable state, every action of get_legal_actions() and   *)
(* every action of get_combined_legal_actions() is accepted when applied   *)
(* to that state: apply_action returns true.                               *)
(***************************************************************************)
C7_LegalAccepted ==
    \A g \in DOMAIN games :
        /\ \A i \in DOMAIN get_legal_actions(State, g) :
              \A out \in apply_action(State, g, get_legal_actions(State, g)[i]) : out.ok
        /\ \A i \in DOMAIN get_combined_legal_actions(State, g) :
              \A out \in apply_action(State, g, get_combined_legal_actions(State, g)[i]) : out.ok

\* a combined action was accepted and the state it left offers legal actions of both lists
C7_Witness ==
    /\ ret = TRUE
    /\ History(State, 1) # <<>>
    /\ Last(History(State, 1)).action_type = "place_and_choose"
    /\ Len(get_legal_actions(State, 1)) > 0
    /\ Len(get_combined_legal_actions(State, 1)) > 0

(***************************************************************************)
(* C8: get_combined_legal_actions returns the empty list outside           *)
(* PLACE_TILE; in PLACE_TILE with more than one empty cell exactly one     *)
(* place_and_choose action per (empty cell, hand index, market index),     *)
(* each with a market index; with exactly one empty cell exactly one       *)
(* action per hand index, each without market index.                      *)
(***************************************************************************)
C8_CombinedActions ==
    \A g \in DOMAIN games :
        LET combined == get_combined_legal_actions(State, g)
            cells == Range(get_empty_positions(Grid(State, g)))
            hand_indices == 0..(Len(Hand(State, g)) - 1)
            market_indices == 0..(Len(MarketTiles(State, g)) - 1)
        IN  /\ Phase(State, g) # PLACE_TILE => combined = <<>>
            /\ Phase(State, g) = PLACE_TILE /\ EmptyCount(State, g) > 1 =>
                  /\ Range(combined) =
                        {Action("place_and_choose", pos, Some(h), Some(m), Nothing) :
                            pos \in cells, h \in hand_indices, m \in market_indices}
                  /\ Len(combined) =
                        Cardinality(cells) * Cardinality(hand_indices) * Cardinality(market_indices)
                  /\ \A i \in DOMAIN combined : ~is_final_turn_action(combined[i])
            /\ Phase(State, g) = PLACE_TILE /\ EmptyCount(State, g) = 1 =>
                  /\ Range(combined) =
                        {Action("place_and_choose", pos, Some(h), Nothing, Nothing) :
                            pos \in cells, h \in hand_indices}
                  /\ Len(combined) = Cardinality(hand_indices)
                  /\ \A i \in DOMAIN combined : is_final_turn_action(combined[i])

\* the final turn of a game that had earlier turns: one cell left, two tiles in hand
C8_Witness ==
    /\ Phase(State, 1) = PLACE_TILE
    /\ EmptyCount(State, 1) = 1
    /\ Turn(State, 1) >= 1
    /\ Len(get_combined_legal_actions(State, 1)) = 2

(***************************************************************************)
(* C9: place_and_choose applied to the single remaining empty cell puts    *)
(* the game in GAME_OVER directly: no market tile is taken, market and bag *)
(* are unchanged, the turn number is not incremented, and get_final_score  *)
(* afterwards equals the cat total + the goal total + the button total.    *)
(***************************************************************************)
\* the total of the three score breakdowns, as tests/test_goals.py adds them up
BreakdownTotal(S, g) ==
    SumValues(get_cat_scores(S, g)) + SumValues(get_goal_scores(S, g))
    + get_button_scores(S, g).total_score

C9_FinalPlacement ==
    \A g \in DOMAIN games :
        Phase(State, g) = PLACE_TILE /\ EmptyCount(State, g) = 1 =>
            /\ \A a \in ProbeActions(g) :
                  /\ a.action_type = "place_and_choose"
                  /\ ~HandIndexOutOfRange(State, g, a)
                  /\ ~PositionUnusable(State, g, a)
                  => \A out \in apply_action(State, g, a) :
                        /\ out.ok
                        /\ out.rand = <<>>
                        /\ Phase(out.S, g) = GAME_OVER
                        /\ EmptyCount(out.S, g) = 0
                        /\ Len(Hand(out.S, g)) = Len(Hand(State, g)) - 1
                        /\ MarketTiles(out.S, g) = MarketTiles(State, g)
                        /\ Bag(out.S, g) = Bag(State, g)
                        /\ Turn(out.S, g) = Turn(State, g)
            /\ \A i \in DOMAIN get_combined_legal_actions(State, g) :
                  \A out \in apply_action(State, g, get_combined_legal_actions(State, g)[i]) :
                      get_final_score(out.S, g) = BreakdownTotal(out.S, g)

\* the game ended by a combined action without market index, after at least one full
\* turn, on a board that scores
C9_Witness ==
    /\ Phase(State, 1) = GAME_OVER
    /\ ret = TRUE
    /\ is_final_turn_action(Last(History(State, 1)))
    /\ Turn(State, 1) >= 1
    /\ get_final_score(State, 1) > 0

(***************************************************************************)
(* C10: a game made by copy() shares no mutable game data with its source, *)
(* in any phase: copy() itself changes nothing of the existing games, and  *)
(* whatever apply_action does on one game, each other game's cells, hand,  *)
(* market, bag, goals, phase, turn number and history stay as they were.   *)
(* The search of select_action, made of copy() and of expand() on copies,  *)
(* leaves the game it was given unchanged.                                 *)
(***************************************************************************)
OthersUnchanged(S, T, g) ==
    \A h \in DOMAIN S.games : h # g => View(T, h) = View(S, h)

\* the new game shows what its source shows, its bag holding the same tiles in some order
SameAsSource(T, g) ==
    LET n == Len(T.games)
    IN  /\ [View(T, n) EXCEPT !.tile_bag = <<>>] = [View(T, g) EXCEPT !.tile_bag = <<>>]
        /\ Len(View(T, n).tile_bag) = Len(View(T, g).tile_bag)
        /\ Range(View(T, n).tile_bag) = Range(View(T, g).tile_bag)

\* every copy() that can be made now leaves the existing games as they are, and the new game
\* shows what its source shows (the bag apart, which is reshuffled)
C10_CopyState ==
    \A g \in DOMAIN games : \A k \in 0..(NumSetups - 1) :
        LET T == copy(State, g, k)
        IN  /\ OthersUnchanged(State, T, 0)
            /\ SameAsSource(T, g)

\* a call changes what one game at most shows; copy() and expand() change none of the
\* games there were
C10_Step ==
    LET changed == {h \in DOMAIN games : View(Next_State, h) # View(State, h)}
    IN  /\ Len(games') >= Len(games)
        /\ Len(games') = Len(games) => Cardinality(changed) <= 1
        /\ Len(games') > Len(games) => changed = {}

SortTiles(tiles) == SortSeq(tiles, LAMBDA a, b : a < b)

\* the tiles on the cells filled by play: the positions of the recorded placements
PlayedTiles(S, g) ==
    LET history == History(S, g)
        placed == {history[i].position : i \in {j \in DOMAIN history :
                      history[j].action_type \in {"place_tile", "place_and_choose"}}}
        Played(pos) == pos \in placed
        cells == SelectSeq(GridKeys, Played)
    IN  [i \in DOMAIN cells |-> Grid(S, g)[cells[i]]]

\* no tile more often than the bag was filled with
WithinSupply(S, g) ==
    LET tiles == SortTiles(Bag(S, g) \o Hand(S, g) \o MarketTiles(S, g) \o PlayedTiles(S, g))
    IN  \A i \in 1..(Len(tiles) - CopiesPerCombination) : tiles[i] # tiles[i + CopiesPerCombination]

\* the sizes of the containers of game g, with its phase and turn number
Sizes(S, g) ==
    [hand |-> Len(Hand(S, g)), market |-> Len(MarketTiles(S, g)), bag |-> Len(Bag(S, g)),
     filled |-> FilledCount(S, g), turn_phase |-> Phase(S, g), turn_number |-> Turn(S, g)]

\* the game copy() appends shows what game g shows, its bag a permutation of g's bag
CopyOfSource(T, g) ==
    LET n == Len(T.games)
    IN  /\ [View(T, n) EXCEPT !.tile_bag = <<>>] = [View(T, g) EXCEPT !.tile_bag = <<>>]
        /\ SortTiles(Bag(T, n)) = SortTiles(Bag(T, g))

C11_CopyIsValidGame ==
    /\ Len(games) = 1 =>
          \A k \in 0..(NumSetups - 1) : CopyOfSource(copy(State, 1, k), 1)
    /\ Len(games) = 2 =>
          /\ WithinSupply(State, 1)
          /\ WithinSupply(State, 2)
          /\ History(State, 2) = History(State, 1) => Sizes(State, 2) = Sizes(State, 1)

\* source and copy have both been through a turn with a market choice, and hold
\* different tiles
C11_Witness ==
    /\ Len(games) = 2
    /\ History(State, 2) = History(State, 1)
    /\ Turn(State, 1) >= 1
    /\ Hand(State, 1) # Hand(State, 2)
    /\ Bag(State, 1) # Bag(State, 2)

(***************************************************************************)
(* C12: bag and market operations fail softly.  Drawing from an empty bag  *)
(* returns None and leaves the bag empty; refill stops with fewer than 3   *)
(* tiles when the bag runs out; choose_tile with an index outside          *)
(* 0..size-1, negative ones included, returns None and leaves the market   *)
(* unchanged, and with a valid index removes and returns exactly the tile  *)
(* at that slot.                                                           *)
(***************************************************************************)
C12_Draw ==
    LET bag == heap[BagRef]
        d == draw_tile(State, BagRef)
    IN  IF bag = <<>>
        THEN d.tile = None /\ d.S = State
        ELSE d.tile = bag[Len(bag)] /\ d.S.heap = [heap EXCEPT ![BagRef] = Front(bag)]

C12_Refill ==
    LET bag == heap[BagRef]
        market == heap[MarketRef]
        r == refill(State, MarketRef, BagRef)
        wanted == IF Len(market) < 3 THEN 3 - Len(market) ELSE 0
        drawn == IF Len(bag) < wanted THEN Len(bag) ELSE wanted
    IN  /\ r.heap[MarketRef] = market \o [i \in 1..drawn |-> bag[Len(bag) + 1 - i]]
        /\ r.heap[BagRef] = SubSeq(bag, 1, Len(bag) - drawn)
        /\ Len(bag) < wanted => Len(r.heap[MarketRef]) < 3 /\ r.heap[BagRef] = <<>>

C12_Choose ==
    \A index \in -4..4 :
        LET market == heap[MarketRef]
            c == choose_tile(State, MarketRef, index)
        IN  IF index \in 0..(Len(market) - 1)
            THEN /\ c.tile = market[index + 1]
                 /\ c.S.heap[MarketRef] =
                        SubSeq(market, 1, index) \o SubSeq(market, index + 2, Len(market))
                 /\ c.S.heap[BagRef] = heap[BagRef]
            ELSE c.tile = None /\ c.S = State

C12_FailSoftly == C12_Draw /\ C12_Refill /\ C12_Choose

\* the bag is empty, a draw has just returned None, and the market was left with one or
\* two tiles
C12_Witness ==
    /\ heap[BagRef] = <<>>
    /\ ret = [op |-> "draw_tile", value |-> None]
    /\ Len(heap[MarketRef]) \in {1, 2}
    /\ refill(State, MarketRef, BagRef) = State

(***************************************************************************)
(* C13: a search that ends with no child of the root expanded (iteration   *)
(* budget 0), on a game that has at least one legal action, returns an     *)
(* action that is legal in that game, in either action mode: it neither    *)
(* returns None nor fails.                                                 *)
(***************************************************************************)
\* the actions legal in game g: the separate ones and the combined ones
LegalIn(S, g) ==
    Range(get_legal_actions(S, g)) \cup Range(get_combined_legal_actions(S, g))

C13_NoChildReturnsLegal ==
    (/\ ret.status \in {"returned", "raised"}
     /\ ret.nodes[1].children = <<>>
     /\ get_legal_actions(State, 1) # <<>>)
    => /\ ret.status = "returned"
       /\ ret.result.action # Nothing
       /\ ret.result.action[1] \in LegalIn(State, 1)

(***************************************************************************)
(* C14: a node whose state offers no action to expand is treated as        *)
(* terminal, so best_child is never asked for the best of no children and  *)
(* no pass of the search loop fails, whatever the root and the action mode.*)
(***************************************************************************)
C14_SearchCompletes == ret.status # "raised"

(***************************************************************************)
(* C15: when the call returns and the root has a child, the action         *)
(* returned is the action of a child of the root that no other child of    *)
(* the root was visited more often than; from the analysis variant the     *)
(* candidates are the children in descending order of visits (at most      *)
(* n_candidates of them) and the action returned is the first candidate's. *)
(***************************************************************************)
RootChildren == ret.nodes[1].children

C15_MostVisitedReturned ==
    (ret.status = "returned" /\ RootChildren # <<>>) =>
        /\ \E i \in DOMAIN RootChildren :
              /\ ret.result.action = ret.nodes[RootChildren[i]].action
              /\ \A j \in DOMAIN RootChildren :
                    ret.nodes[RootChildren[j]].visits <= ret.nodes[RootChildren[i]].visits
        /\ ret.op = "select_action_with_analysis" =>
              LET candidates == ret.result.candidates
              IN  /\ Len(candidates) =
                        IF Len(RootChildren) < DEFAULT_N_CANDIDATES
                        THEN Len(RootChildren) ELSE DEFAULT_N_CANDIDATES
                  /\ \A i \in DOMAIN candidates :
                        \E j \in DOMAIN RootChildren :
                            /\ candidates[i].action = ret.nodes[RootChildren[j]].action
                            /\ candidates[i].visits = ret.nodes[RootChildren[j]].visits
                  /\ \A i \in DOMAIN candidates : \A j \in DOMAIN candidates :
                        i < j => candidates[i].visits >= candidates[j].visits
                  /\ \A j \in DOMAIN RootChildren :
                        ret.nodes[RootChildren[j]].visits <= candidates[1].visits
                  /\ ret.result.action = candidates[1].action

\* the analysis variant has returned on a root with two children; the child expanded
\* second was visited more often than the first, and its action is the one returned
C15_Witness ==
    /\ ret.status = "returned"
    /\ ret.op = "select_action_with_analysis"
    /\ Len(RootChildren) = 2
    /\ ret.nodes[RootChildren[1]].visits < ret.nodes[RootChildren[2]].visits
    /\ ret.result.action = ret.nodes[RootChildren[2]].action
    /\ Len(ret.result.candidates) = 2

(***************************************************************************)
(* C16: a pass of the search loop adds 1 to the visits, and the simulated  *)
(* score to the cumulative score, of the evaluated node and of each of its *)
(* ancestors up to the root, and of no other node.  So after k completed   *)
(* passes the root has k visits, every other node has at least 1, and      *)
(* every non-terminal node has as many visits as its children together,    *)
(* plus 1 unless it is the root.                                           *)
(***************************************************************************)
\* node n and its ancestors
RECURSIVE PathToRoot(_, _)
PathToRoot(nodes, n) ==
    IF n = 0 THEN {} ELSE {n} \cup PathToRoot(nodes, nodes[n].parent)

ChildVisits(nodes, n) ==
    SumSeq([i \in DOMAIN nodes[n].children |-> nodes[nodes[n].children[i]].visits])

C16_Counts ==
    ret.status \in {"running", "returned"} =>
        /\ ret.nodes[1].visits = ret.completed
        /\ \A n \in DOMAIN ret.nodes :
              /\ n # 1 => ret.nodes[n].visits >= 1
              /\ Len(ret.nodes[n].total_score) = ret.nodes[n].visits
              /\ ~is_terminal(State, ret.nodes[n]) =>
                    ret.nodes[n].visits =
                        (IF n = 1 THEN 0 ELSE 1) + ChildVisits(ret.nodes, n)

C16_Pass ==
    (ret.status = "running" /\ ret'.status = "running" /\ ret'.completed # ret.completed)
    => LET score == ret'.last.evaluation[1].score
           path == PathToRoot(ret'.nodes, ret'.last.node)
           Visits(n) == IF n \in DOMAIN ret.nodes THEN ret.nodes[n].visits ELSE 0
           Total(n) == IF n \in DOMAIN ret.nodes THEN ret.nodes[n].total_score ELSE <<>>
       IN  /\ ret'.completed = ret.completed + 1
           /\ 1 \in path
           /\ \A n \in DOMAIN ret'.nodes :
                 IF n \in path
                 THEN /\ ret'.nodes[n].visits = Visits(n) + 1
                      /\ ret'.nodes[n].total_score = Append(Total(n), score)
                 ELSE /\ ret'.nodes[n].visits = Visits(n)
                      /\ ret'.nodes[n].total_score = Total(n)

C16_Backpropagation == []C16_Counts /\ [][C16_Pass]_vars

\* the fourth pass has gone through a child of the root to a node two levels down: the
\* root has 4 visits, that child 2, the new node 1
C16_Witness ==
    /\ ret.status = "running"
    /\ ret.completed = 4
    /\ ret.last.expanded
    /\ LET n == ret.last.node
           p == ret.nodes[n].parent
       IN  /\ p # 1
           /\ ret.nodes[p].parent = 1
           /\ ret.nodes[n].visits = 1
           /\ ret.nodes[p].visits = 2
           /\ ret.nodes[1].visits = 4

(***************************************************************************)
(* C17, as stated: with the heuristic enabled every evaluated node is      *)
(* evaluated by a full rollout played to GAME_OVER, valued at the final    *)
(* score, when its empty cells are at or below late_game_threshold, and by *)
(* the heuristic evaluator on the node's own state, with no move played,   *)
(* otherwise.                                                              *)
(***************************************************************************)
\* the pass just completed was made by an agent with the heuristic enabled
HeuristicPass ==
    /\ ret.status = "running"
    /\ ret.completed > 0
    /\ ret.agent.use_heuristic

EvaluatedState == ret.nodes[ret.last.node].state

\* the evaluation is a rollout played to the end of the game and valued at the final score
FullRolloutValue(e) ==
    /\ e.over
    /\ e.score.evaluator = "get_final_score"
    /\ e.score.points # Nothing
    /\ get_empty_positions(e.score.grid) = <<>>

\* the evaluation is the heuristic evaluator on game g as it is, no move played
DirectHeuristicValue(e, g) ==
    /\ e.moves = 0
    /\ e.score = evaluate_state(State, g)

C17_TwoRules ==
    HeuristicPass =>
        LET e == ret.last.evaluation[1]
            g == EvaluatedState
        IN  IF EmptyCount(State, g) <= ret.agent.late_game_threshold
            THEN FullRolloutValue(e)
            ELSE DirectHeuristicValue(e, g)

(***************************************************************************)
(* C17, amended: a node whose state is past goal selection with all 22     *)
(* cells still empty is evaluated first of all, unless                     *)
(* goal_selection_rollout_depth is 0, by a partial rollout: that many      *)
(* random moves on a copy (a full rollout when the depth is -1), valued by *)
(* the heuristic evaluator on the position reached, or at the final score  *)
(* if the game ended.  Every other node follows the two rules above.       *)
(***************************************************************************)
C17_EvaluationRule ==
    HeuristicPass =>
        LET e == ret.last.evaluation[1]
            g == EvaluatedState
            depth == ret.agent.goal_selection_rollout_depth
        IN  IF Phase(State, g) # GOAL_SELECTION /\ EmptyCount(State, g) = FULL_BOARD_EMPTY
               /\ depth # 0
            THEN IF depth = -1 THEN FullRolloutValue(e)
                 ELSE /\ e.moves <= depth
                      /\ IF e.over THEN FullRolloutValue(e)
                         ELSE /\ e.moves = depth
                              /\ e.score.evaluator = "evaluate_state"
                              /\ e.score.grid # Grid(State, g)
                              /\ get_empty_positions(e.score.grid) # <<>>
            ELSE IF EmptyCount(State, g) <= ret.agent.late_game_threshold
            THEN FullRolloutValue(e)
            ELSE DirectHeuristicValue(e, g)

\* the child made by a goal selection on the empty board was evaluated by 8 moves on a
\* copy and the heuristic evaluator on the position reached
C17_Witness ==
    /\ HeuristicPass
    /\ ret.agent.goal_selection_rollout_depth = 8
    /\ Phase(State, EvaluatedState) = PLACE_TILE
    /\ EmptyCount(State, EvaluatedState) = FULL_BOARD_EMPTY
    /\ ret.agent.late_game_threshold < FULL_BOARD_EMPTY
    /\ ret.last.evaluation[1].moves = 8
    /\ ret.last.evaluation[1].score.evaluator = "evaluate_state"

(***************************************************************************)
(* C18: the groups one cat credits in one scoring pass share no position,  *)
(* and no tile of one is adjacent to a tile of another of the same         *)
(* pattern; the same holds of the groups the button scan credits to one    *)
(* colour; and the groups of a colour are those found with the tiles of    *)
(* every other colour taken off the board.                                 *)
(***************************************************************************)
\* two groups with a tile of one next to a tile of the other
Adjacent(group, other) ==
    \E pos \in group : Range(get_neighbors(pos)) \cap other # {}

\* the pattern (the colour) of the tiles of a credited group
GroupAttr(grid, group, attr) == TileAttr(grid[CHOOSE pos \in group : TRUE], attr)

\* the groups share no position, and those of the same pattern (colour) do not touch
Separated(grid, groups, attr) ==
    \A i \in DOMAIN groups : \A j \in DOMAIN groups :
        i # j =>
            /\ groups[i] \cap groups[j] = {}
            /\ GroupAttr(grid, groups[i], attr) = GroupAttr(grid, groups[j], attr)
                   => ~Adjacent(groups[i], groups[j])

\* the grid with only the tiles of one colour left on it
OnlyColor(grid, color) ==
    [p \in DOMAIN grid |-> IF TileMatches(grid, p, "color", color) THEN grid[p] ELSE None]

C18_GroupsSeparated ==
    LET grid == heap[GridRef]
    IN  /\ \A cat \in TestCats : Separated(grid, find_all_groups(cat, grid, {}), "pattern")
        /\ \A color \in 1..NumColors :
              /\ Separated(grid, find_color_groups(grid, color, {}), "color")
              /\ find_color_groups(grid, color, {})
                    = find_color_groups(OnlyColor(grid, color), color, {})

\* the row holds seven tiles of the first colour and pattern: Millie and the button scan
\* credit two groups each, and the tiles of the second one touch no tile of the first
C18_Witness ==
    LET grid == heap[GridRef]
    IN  /\ \A i \in 1..7 : grid[RegionCells[i]] = Tile(1, 1)
        /\ Len(find_all_groups(Cat("Millie", 3, <<1, 2>>), grid, {})) = 2
        /\ Len(find_color_groups(grid, 1, {})) = 2

(***************************************************************************)
(* C19: a cat with patterns P1 and P2 claims tiles per pattern search: the *)
(* groups it credits are the P1 groups followed by the P2 groups a search  *)
(* for P2 alone credits, so that no tile claimed by a P1 group causes a P2 *)
(* group to be rejected.                                                   *)
(***************************************************************************)
\* the lines of a line cat
CatLines(cat) ==
    IF cat.name = "Leo" THEN ALL_5_LINES
    ELSE IF cat.name = "Rumi" THEN ALL_3_LINES
    ELSE ALL_4_LINES

\* the groups the cat's search for one pattern credits when no tile is claimed before it
PatternAlone(cat, grid, pattern) ==
    IF cat.name = "Millie" THEN _find_pattern_groups(grid, pattern, {})
    ELSE LineScan(grid, MatchingLines(grid, CatLines(cat), pattern), pattern,
                  1, {}, <<>>).valid_groups

C19_PerPatternClaiming ==
    \A cat \in TestCats :
        find_all_groups(cat, heap[GridRef], {})
            = PatternAlone(cat, heap[GridRef], cat.patterns[1])
              \o PatternAlone(cat, heap[GridRef], cat.patterns[2])

\* the orders a sequence of lines can be iterated in
Orders(lines) ==
    LET n == Len(lines)
        Perms == {f \in [1..n -> 1..n] : \A i, j \in 1..n : f[i] = f[j] => i = j}
    IN  {[i \in 1..n |-> lines[f[i]]] : f \in Perms}

\* the cells of the grid that hold a tile of the pattern
PatternCells(grid, pattern) ==
    {pos \in Range(GridKeys) : TileMatches(grid, pos, "pattern", pattern)}

\* the scores Leo can give the grid: its patterns in either order, the lines that hold
\* the pattern in any order (a line that does not hold the pattern is skipped by the
\* loop without effect, wherever it stands in ALL_5_LINES)
LeoScores(grid, pattern) ==
    { Len(LineCat_find_all_groups(grid, lines, patterns, {})) * 11 :
        lines \in Orders(MatchingLines(grid, ALL_5_LINES, pattern)),
        patterns \in Orders(LeoPatterns) }

\* C20: when the only tiles of a pattern of Leo are five tiles contiguous along one axis
\* on playable cells, or those five and a sixth contiguous with them on the same axis,
\* Leo scores its point value exactly once, whatever the order the lines are iterated in.
C20_LineScoresOnce ==
    ret.line # <<>> =>
        /\ PatternCells(heap[GridRef], ret.pattern) = Range(ret.line) \cup Range(ret.sixth)
        /\ LeoScores(heap[GridRef], ret.pattern) = {11}

\* six tiles of the pattern in a line, holding two overlapping lines of five, beside a
\* tile of the other pattern of Leo, scored once
C20_Witness ==
    /\ ret.line # <<>>
    /\ ret.sixth # Nothing
    /\ ret.others > 0
    /\ Len(MatchingLines(heap[GridRef], ALL_5_LINES, ret.pattern)) = 2
    /\ ret.line[2][2] # ret.line[1][2]
    /\ LeoScores(heap[GridRef], ret.pattern) = {11}

\* the values hold exactly the counts of the signature: as many kinds of value occur n
\* times as the signature has entries n
HasSignature(values, signature) ==
    \A n \in 1..Len(values) :
        Cardinality({v \in Range(values) : Cardinality({i \in DOMAIN values : values[i] = v}) = n})
            = Cardinality({i \in DOMAIN signature : signature[i] = n})

\* the count-signature of each goal class, and its lower and higher value
ClassSignature ==
    << <<3, 3>>, <<2, 2, 2>>, <<1, 1, 1, 1, 1, 1>>, <<4, 2>>, <<2, 2, 1, 1>>, <<3, 2, 1>> >>
ClassValues == << <<8, 13>>, <<7, 11>>, <<10, 15>>, <<7, 14>>, <<5, 7>>, <<7, 11>> >>

\* the tiles on the six cells around the goal position, None for an empty cell
Around(grid, position) ==
    [d \in 1..6 |-> grid_get(grid, <<position[1] + _HEX_DIRECTIONS[d][1],
                                     position[2] + _HEX_DIRECTIONS[d][2],
                                     position[3] + _HEX_DIRECTIONS[d][3]>>)]

\* the conditions a goal of class k at the position meets, none while a cell around it is empty
ConditionsMet(grid, position, k) ==
    LET around == Around(grid, position)
    IN  IF \E d \in 1..6 : around[d] = None THEN {}
        ELSE {attr \in {"color", "pattern"} :
                HasSignature([d \in 1..6 |-> TileAttr(around[d], attr)], ClassSignature[k])}

\* the score the rule gives a goal of class k at the position
RuleScore(grid, position, k) ==
    LET met == Cardinality(ConditionsMet(grid, position, k))
    IN  IF met = 2 THEN ClassValues[k][2] ELSE IF met = 1 THEN ClassValues[k][1] ELSE 0

ScoreOf(k) == Goal_score([kind |-> k, position |-> ret.position], heap[GridRef])

\* C21 as stated: the score follows the rule, and with both conditions met it is never
\* the sum of the two single-condition values.
C21_NeverTheSum ==
    \A k \in DOMAIN ALL_GOAL_CLASSES :
        /\ ScoreOf(k) = RuleScore(heap[GridRef], ret.position, k)
        /\ Cardinality(ConditionsMet(heap[GridRef], ret.position, k)) = 2
              => ScoreOf(k) # 2 * ClassValues[k][1]

\* C21: a goal of any class scores 0 while one of the six cells around it is empty; with
\* all six filled it scores the higher value of its class when the colour counts and the
\* pattern counts both have its signature, the lower value when exactly one has, else 0.
\* The higher value is less than the sum of two lower values for every class but
\* AAAA-BB, whose higher value 14 is that sum.
C21_GoalScore ==
    \A k \in DOMAIN ALL_GOAL_CLASSES :
        /\ ScoreOf(k) = RuleScore(heap[GridRef], ret.position, k)
        /\ Cardinality(ConditionsMet(heap[GridRef], ret.position, k)) = 2
              => IF ALL_GOAL_CLASSES[k] = "AAAA-BB" THEN ScoreOf(k) = 2 * ClassValues[k][1]
                 ELSE ScoreOf(k) < 2 * ClassValues[k][1]

\* six tiles around the goal, four of one colour and pattern and two of another: the
\* AAAA-BB goal meets both conditions and scores 14
C21_Witness ==
    /\ Len(ret.tiles) = 6
    /\ ret.order = "backward"
    /\ ConditionsMet(heap[GridRef], ret.position, 4) = {"color", "pattern"}
    /\ ScoreOf(4) = 14

\* what the scorer of `scored` returns when it is called in the state with this heap
ScoreAgain(scored, h) ==
    IF scored.scorer = "cat" THEN score_with_usage(scored.of, h[GridRef], h[UsedRef])
    ELSE IF scored.scorer = "goal" THEN Goal_score(scored.of, h[GridRef])
    ELSE score_buttons(h[GridRef])

\* a scorer has just returned
ScorerReturned == ret.scorer # "none"

\* a call of a scorer leaves the cells of the board and the caller's set as they were
ScorerPass ==
    ret'.scorer # "none" => heap'[GridRef] = heap[GridRef] /\ heap'[UsedRef] = heap[UsedRef]

C23_HeuristicExactWhenFull ==
    /\ evaluate_cats(State, 1) >= 0
    /\ evaluate_goals(State, 1) >= 0
    /\ evaluate_buttons(Grid(State, 1)) >= 0
    /\ EmptyCount(State, 1) = 0 =>
          evaluate_state_value(State, 1) = get_final_score(State, 1) * HeuristicUnit

\* the lines of a list as sets of positions
LineSets(lines) == {Range(lines[i]) : i \in DOMAIN lines}

\* the groups the scoring engine credits a line cat of the pattern on the grid
Credited(name, point_value, grid, pattern) ==
    Range(find_all_groups(Cat(name, point_value, <<pattern, pattern>>), grid, {}))

\* C24: the line lists of the heuristic hold no line twice, in either orientation, and
\* every line of 5 (of 3) the scoring engine credits on a board is a line of the list of
\* 5-lines (of 3-lines) the heuristic evaluates.
C24_LinesCovered ==
    /\ Cardinality(LineSets(enumerate_all_5_lines)) = Len(enumerate_all_5_lines)
    /\ Cardinality(LineSets(enumerate_all_3_lines)) = Len(enumerate_all_3_lines)
    /\ ret.line # <<>> =>
          /\ Credited("Leo", 11, heap[GridRef], ret.pattern) \subseteq LineSets(enumerate_all_5_lines)
          /\ Credited("Rumi", 5, heap[GridRef], ret.pattern) \subseteq LineSets(enumerate_all_3_lines)

\* q + r + s = 0
OnPlane(pos) == pos[1] + pos[2] + pos[3] = 0

\* the positions carried by the legal actions of game g, separate and combined
LegalPositions(g) ==
    {a.position : a \in {x \in Range(get_legal_actions(State, g))
                                  \cup Range(get_combined_legal_actions(State, g)) :
                               x.position # Nothing}}

\* C25: every position that is a key of the board, stands in a neighbour list or is
\* carried by a legal action has q + r + s = 0; with the goal positions removed, the
\* neighbour list of every playable cell holds playable cells only, none of them a goal
\* position, at most 6 of them, and a playable cell is a neighbour of its neighbours.
C25_PositionsAndNeighbors ==
    \A g \in DOMAIN games :
        /\ \A pos \in DOMAIN Grid(State, g) : OnPlane(pos)
        /\ \A pos \in DOMAIN NeighborCache : \A n \in Range(NeighborCache[pos]) : OnPlane(n)
        /\ \A pos \in LegalPositions(g) : OnPlane(pos) /\ pos \in DOMAIN Grid(State, g)
        /\ \A pos \in DOMAIN Grid(State, g) :
              /\ Range(get_neighbors(pos)) \subseteq DOMAIN Grid(State, g)
              /\ Range(get_neighbors(pos)) \cap Range(GOAL_POSITIONS) = {}
              /\ Len(get_neighbors(pos)) <= 6
              /\ \A n \in Range(get_neighbors(pos)) : pos \in Range(get_neighbors(n))

\* a legal action places a tile on a cell beside a goal position: the cell has five
\* neighbours, the goal position is not one of them
C25_Witness ==
    /\ Phase(State, 1) = PLACE_TILE
    /\ Range(GOAL_POSITIONS) \cap DOMAIN Grid(State, 1) = {}
    /\ \E pos \in LegalPositions(1) :
          /\ Len(get_neighbors(pos)) = 5
          /\ \E goal \in Range(GOAL_POSITIONS), d \in DOMAIN _HEX_DIRECTIONS :
                /\ goal = <<pos[1] + _HEX_DIRECTIONS[d][1], pos[2] + _HEX_DIRECTIONS[d][2],
                            pos[3] + _HEX_DIRECTIONS[d][3]>>
                /\ goal \notin Range(get_neighbors(pos))

(***************************************************************************)
(* C26: play on a new game on BOARD_1 terminates                           *)
(***************************************************************************)
\* the number of entries of the action history of game 1 of the given type
Applied(type) ==
    Cardinality({i \in DOMAIN History(State, 1) : History(State, 1)[i].action_type = type})

\* the number of separate actions a state is away from the end of the game: each empty
\* cell takes a placement, each but the last a market choice, and the goals are selected once
StepsLeft(S, g) ==
    LET e == Len(get_empty_positions(Grid(S, g)))
        phase == S.games[g].turn_phase
    IN  IF phase = GOAL_SELECTION THEN 2 * e
        ELSE IF phase = PLACE_TILE THEN 2 * e - 1
        ELSE IF phase = CHOOSE_MARKET THEN 2 * e
        ELSE 0

\* what one action of the list takes off StepsLeft: a combined action that is not the last
\* counts for a placement and a market choice
StepsOf(action) ==
    IF action.action_type = "place_and_choose" /\ action.market_index # Nothing THEN 2 ELSE 1

\* while the call has not returned: the list is not empty unless the game is over, every
\* action of the list is accepted and brings the game the action's steps nearer to the
\* end, the placements made and the empty cells add up to the 22 cells of the board, and
\* the game is over exactly when no cell is empty
PlayProgress ==
    LET e == Len(get_empty_positions(Grid(State, 1)))
    IN  /\ (games[1].turn_phase = GAME_OVER) <=> (e = 0)
        /\ ~is_game_over(State, 1) => play_actions(State, 1, ret.use_combined_actions) # <<>>
        /\ Applied("place_tile") + Applied("place_and_choose") + e = 22
        /\ StepsLeft(State, 1) <= 44
        /\ ~is_game_over(State, 1) =>
              \A a \in Range(play_actions(State, 1, ret.use_combined_actions)) :
                  \A out \in apply_action(State, 1, a) :
                      /\ out.ok
                      /\ StepsLeft(out.S, 1) = StepsLeft(State, 1) - StepsOf(a)

\* the call has returned from a finished game: GAME_OVER, no empty cell, 1 goal selection
\* and 22 combined actions, or 22 placements and 21 market choices
PlayFinished ==
    /\ ret.returned
    /\ games[1].turn_phase = GAME_OVER
    /\ get_empty_positions(Grid(State, 1)) = <<>>
    /\ Applied("select_goals") = 1
    /\ IF ret.use_combined_actions
       THEN Applied("place_and_choose") = 22 /\ Len(History(State, 1)) = 23
       ELSE Applied("place_tile") = 22 /\ Applied("choose_market") = 21
            /\ Len(History(State, 1)) = 44

\* a step of the call either returns or takes the game nearer to its end
PlayAdvances ==
    \/ ~ret.returned /\ ret'.returned
    \/ StepsLeft([games |-> games', heap |-> heap'], 1) < StepsLeft(State, 1)

\* C26: from a new game on BOARD_1, in either mode, the loop of play_random_game can
\* always go on or return, every action of the current list is accepted and brings the
\* game strictly nearer to its end (at most 44 steps away at the start, never less than 0),
\* so the call returns; and it returns from a game that is GAME_OVER with no empty cell
\* after 1 goal selection and 22 combined actions, or 22 placements and 21 market choices
C26_PlayTerminates ==
    /\ [](ret.returned => PlayFinished)
    /\ [](~ret.returned => PlayProgress)
    /\ [][PlayAdvances]_vars

\* a playout in separate mode has returned after its 44 actions
C26_Witness ==
    /\ ret.returned
    /\ ~ret.use_combined_actions
    /\ Applied("place_tile") = 22
    /\ Applied("choose_market") = 21
    /\ games[1].turn_phase = GAME_OVER

(***************************************************************************)
(* C27: a combined action is a placement followed by a market choice       *)
(***************************************************************************)
\* what an outcome of a call on game 1 shows, the action history aside: whether the call
\* was accepted, the discards drawn, and the board, hand, market, bag, turn and phase
Shown(out) ==
    [ok |-> out.ok, rand |-> out.rand,
     view |-> [View(out.S, 1) EXCEPT !._action_history = <<>>]]

\* the outcomes of place_and_choose(position, hand_index, market_index)
CombinedOutcomes(action) == {Shown(out) : out \in apply_action(State, 1, action)}

\* the outcomes of place_tile(position, hand_index) followed by choose_market(market_index)
SeparateOutcomes(action) ==
    UNION { IF placed.ok
            THEN {Shown(out) : out \in
                     apply_action(placed.S, 1,
                         Action("choose_market", Nothing, Nothing, action.market_index, Nothing))}
            ELSE {Shown(placed)}
            : placed \in apply_action(State, 1,
                  Action("place_tile", action.position, action.hand_index, Nothing, Nothing)) }

\* C27: in every PLACE_TILE state with more than one empty cell (those of the playouts in
\* combined mode: the ones in separate mode go through the same), for every combined legal
\* action (every empty position, hand index and market index), place_and_choose and
\* place_tile followed by choose_market are both accepted and end, discards for discards,
\* with the same board, hand, market, bag, turn number and phase
C27_CombinedIsSeparate ==
    (ret.use_combined_actions /\ games[1].turn_phase = PLACE_TILE /\ EmptyCount(State, 1) > 1) =>
        \A action \in Range(get_combined_legal_actions(State, 1)) :
            LET combined == CombinedOutcomes(action)
            IN  /\ action.market_index # Nothing
                /\ combined = SeparateOutcomes(action)
                /\ \A shown \in combined :
                      /\ shown.ok
                      /\ shown.view.turn_phase = PLACE_TILE
                      /\ shown.view.turn_number = games[1].turn_number + 1

\* a combined action has been applied on a board with more than one empty cell, in a
\* state where the equivalence is examined again
C27_Witness ==
    /\ ret.use_combined_actions
    /\ ~ret.returned
    /\ games[1].turn_phase = PLACE_TILE
    /\ EmptyCount(State, 1) > 1
    /\ Applied("place_and_choose") >= 1
    /\ Cardinality(CombinedOutcomes(get_combined_legal_actions(State, 1)[1])) > 1

(***************************************************************************)
(* C28: no accepted action strands the game                                *)
(***************************************************************************)
\* C28: in every state reached through accepted calls of apply_action, a game that is not
\* over has a legal action, and in PLACE_TILE the hand holds exactly 2 tiles
C28_NeverStranded ==
    /\ Phase(State, 1) # GAME_OVER => get_legal_actions(State, 1) # <<>>
    /\ Phase(State, 1) = PLACE_TILE => Len(Hand(State, 1)) = 2

\* the same while every accepted combined action of the history that was not the last
\* placement named a tile of the market: the hand holds 2 tiles in PLACE_TILE and 1 in
\* CHOOSE_MARKET, and the game goes on
C28_RegularActions ==
    LET history == History(State, 1)
        Regular(i) ==
            history[i].action_type = "place_and_choose" =>
                \/ history[i].market_index \in {Some(0), Some(1), Some(2)}
                \/ i = Len(history) /\ Phase(State, 1) = GAME_OVER
    IN  (\A i \in DOMAIN history : Regular(i)) =>
            /\ C28_NeverStranded
            /\ Phase(State, 1) = CHOOSE_MARKET => Len(Hand(State, 1)) = 1

(***************************************************************************)
(* C29: the neighbours of a goal position                                  *)
(***************************************************************************)
\* the six positions around a position
Surrounding(pos) ==
    {<<pos[1] + _HEX_DIRECTIONS[d][1], pos[2] + _HEX_DIRECTIONS[d][2],
       pos[3] + _HEX_DIRECTIONS[d][3]>> : d \in DOMAIN _HEX_DIRECTIONS}

\* C29: in every game, the original and its copies, a goal position is not a key of the
\* board and stands in no cell's neighbour list, yet get_neighbors of it returns its six
\* surrounding cells, all of them playable; and the tiles a selected goal is scored on
\* are the tiles on these six cells
C29_GoalNeighbors ==
    \A g \in DOMAIN games :
        /\ \A pos \in Range(GOAL_POSITIONS) :
              /\ pos \notin DOMAIN Grid(State, g)
              /\ Len(get_neighbors(pos)) = 6
              /\ Range(get_neighbors(pos)) = Surrounding(pos)
              /\ Surrounding(pos) \subseteq DOMAIN Grid(State, g)
              /\ \A cell \in DOMAIN Grid(State, g) : pos \notin Range(get_neighbors(cell))
        /\ \A i \in DOMAIN Goals(State, g) :
              LET goal == Goals(State, g)[i]
                  filled == {pos \in Surrounding(goal.position) : Grid(State, g)[pos] # None}
                  tiles == get_neighbor_tiles(goal, Grid(State, g))
              IN  /\ goal.position \in Range(GOAL_POSITIONS)
                  /\ Len(tiles) = Cardinality(filled)
                  /\ \A tile \in Range(tiles) \cup {Grid(State, g)[pos] : pos \in filled} :
                        Cardinality({k \in DOMAIN tiles : tiles[k] = tile})
                            = Cardinality({pos \in filled : Grid(State, g)[pos] = tile})

\* a copy of a game holds a selected goal whose six surrounding cells all carry a tile,
\* while a cell of the copy is still empty
C29_Witness ==
    /\ Len(games) >= 2
    /\ \E i \in DOMAIN Goals(State, 2) :
          Len(get_neighbor_tiles(Goals(State, 2)[i], Grid(State, 2))) = 6
    /\ EmptyCount(State, 2) > 0

(***************************************************************************)
(* C30: the bag does not run out                                           *)
(***************************************************************************)
\* the market choices made in game 1: the separate ones and the combined actions that were
\* not the last placement
MarketChoicesMade ==
    Applied("choose_market")
    + Cardinality({i \in DOMAIN History(State, 1) :
                      /\ History(State, 1)[i].action_type = "place_and_choose"
                      /\ History(State, 1)[i].market_index # Nothing})

\* C30: during a game on BOARD_1, before the goals are selected the bag holds its 108
\* tiles; after, it holds the 103 left by the deal less 4 for every market choice made,
\* never fewer than 19, the market holds exactly 3 tiles, and neither the hand nor the
\* market holds a missing entry, so every draw has returned a tile
C30_BagNeverEmpty ==
    IF Phase(State, 1) = GOAL_SELECTION
    THEN /\ Len(Bag(State, 1)) = 108
         /\ games[1].market = NoRef
         /\ Hand(State, 1) = <<>>
    ELSE /\ Len(Bag(State, 1)) = 108 - 5 - 4 * MarketChoicesMade
         /\ MarketChoicesMade <= 21
         /\ Len(Bag(State, 1)) >= 19
         /\ Len(MarketTiles(State, 1)) = 3
         /\ None \notin Range(MarketTiles(State, 1)) \cup Range(Hand(State, 1))

\* a game has ended with the bag down to its 19 last tiles
C30_Witness ==
    /\ Phase(State, 1) = GAME_OVER
    /\ MarketChoicesMade = 21
    /\ Len(Bag(State, 1)) = 19
    /\ Len(MarketTiles(State, 1)) = 3

====
